---- MODULE Spec2Model ----
(***************************************************************************)
(* Asynchronous timetable-extraction pipeline: the job lifecycle kept in   *)
(* the Job Store, the queue with visibility timeout and dead-letter queue, *)
(* the worker's processMessage / saveResults / handleJobFailure, and the   *)
(* cancel endpoint.  Every await of a handler is one step, so that the     *)
(* handlers of different workers and API requests interleave as they do    *)
(* on the real event loops.                                                *)
(*                                                                         *)
(* Abstractions: timestamps are "set / not set"; an error message is       *)
(* "null / non-null"; the extracted document is not represented here (only *)
(* whether extraction produced one).                                       *)
(***************************************************************************)
EXTENDS Integers, Sequences, FiniteSets, TLC

\* ---------------------------------------------------------------- bounds
MaxJobs == 1
NumWorkers == 2
MaxDeliveries == 3
MaxCancels == 1
MaxWebhooks == 2
MaxWebhookJobs == 2
MaxPosts == 2
MaxAttemptsLimit == 2
MaxBlocks == 3
MaxRecurring == 1
MaxSubmissions == 2
MaxRestarts == 1

\* ------------------------------------------------------ program constants
DefaultMaxRetries == 3
SmallGapMinutes == 5
FreePeriodMinutes == 10

JobIds == 1..MaxJobs
WorkerIds == 1..NumWorkers

VARIABLES
    jobs,        \* Job Store: ExtractionJob rows, by job id
    timetables,  \* Job Store: number of Timetable rows created for each job; the
                 \* k-th row created for a job has id k (0 is null)
    retryLogs,   \* Job Store: attemptNumber of each job's RetryLog rows, in
                 \* insertion order
    blobs,       \* Blob Store: number of PutObject calls on each job's result key
    queue,       \* main queue: the message of each job
    dlq,         \* dead-letter queue: number of records carrying each jobId
    workers,     \* each drainer loop's position and locals
    cancelReq,   \* DELETE /jobs/:jobId requests between their read and their write
    cancelResult,\* response of the last finished cancel request of each job
    cancelCount, \* number of cancel requests made so far for each job
    orchestrator,\* one call of ExtractionOrchestrator.extract: its position,
                 \* the flags, the backend calls made so far and the result
    validation,  \* one timetable on its way through ExtractionValidator.validate
    webhooks,    \* Job Store: Webhook rows, by webhook id
    posts,       \* the POSTs each webhook's target has answered so far
    deliveries,  \* each triggerWebhooks call's position and locals
    process,     \* the worker process: the isRunning flag and how far a
                 \* shutdown has come
    submission,  \* one POST /upload request: its position and what it has
                 \* written so far
    classification \* one artifact on its way through FileProcessor.processFile,
                 \* ComplexityAnalyzer.analyze and the routing of extract

\* the job pipeline (upload, queue, workers, cancel)
pipelineVars == <<jobs, timetables, retryLogs, blobs, queue, dlq, workers,
                  cancelReq, cancelResult, cancelCount>>

\* the components that are modelled on their own
stageVars == <<orchestrator, validation, webhooks, posts, deliveries>>

\* the worker process, the upload route and the classifier
hostVars == <<process, submission, classification>>

componentVars == <<stageVars, hostVars>>

vars == <<pipelineVars, componentVars>>

\* ------------------------------------------------------------- job store
NoJob == [status |-> "none", retryCount |-> 0, maxRetries |-> 0,
          errorMessage |-> FALSE, timetableId |-> 0, resultUrl |-> FALSE,
          startedAt |-> FALSE, completedAt |-> FALSE]

\* prisma.extractionJob.create in POST /upload: status 'pending', the other
\* columns at their defaults
NewJob == [status |-> "pending", retryCount |-> 0, maxRetries |-> DefaultMaxRetries,
           errorMessage |-> FALSE, timetableId |-> 0, resultUrl |-> FALSE,
           startedAt |-> FALSE, completedAt |-> FALSE]

\* body is the MessageBody: the JSON text of a job descriptor, a text that is
\* not JSON, or nothing
NoMessage == [state |-> "none", receives |-> 0, body |-> "none"]

Bodies == {"descriptor", "notJSON", "empty"}

\* SQSService.parseMessage: the descriptor, or null for a missing body and
\* for a body that JSON.parse rejects
parseMessage(body) == IF body = "descriptor" THEN "jobData" ELSE "null"

\* a drainer loop between two messages.  observed is not a variable of the
\* program: it records whether the job was already completed or cancelled
\* when the message was received.
IdleWorker == [pc |-> "poll", jobId |-> 0, retryCount |-> 0, timetableId |-> 0,
               observed |-> "none"]

\* ------------------------------------------------- components at rest
\* the backend calls the orchestrator can make
DocumentAIExtract == "documentAI.extractTimetable"
ClaudeExtract == "claude.extractTimetable"
ClaudeValidate == "claude.validateExtraction"

\* process.env as the orchestrator reads it ('true' or anything else; the
\* credentials variable set or unset)
Envs == [USE_DOCUMENT_AI : BOOLEAN, USE_CLAUDE_FALLBACK : BOOLEAN,
         USE_HYBRID_MODE : BOOLEAN, GOOGLE_APPLICATION_CREDENTIALS : BOOLEAN]

NoComplexity == [level |-> "none", recommendedMethod |-> "none", reasons |-> <<>>]

\* what the messages.create call of validateExtraction can come to: the call
\* throws, the first content part is not text, the text holds no {...}, the
\* {...} is not valid JSON, or it parses
ClaudeResponses == {"error", "nonText", "noJSON", "invalidJSON", "json"}

\* extract before its first statement.  validateResponse is the outcome of
\* the validation call of the hybrid branch ("none" while it was not made).
\* failedAfter is not a variable of the
\* program: it is the number of backend calls made when the catch block was
\* entered, -1 while it was not.
NewExtraction(env) ==
    [pc |-> "analyze", env |-> env, complexity |-> NoComplexity, calls |-> <<>>,
     data |-> "none", method |-> "none", validated |-> FALSE, failedAfter |-> -1,
     validateResponse |-> "none"]

NoExtraction == [NewExtraction([USE_DOCUMENT_AI |-> FALSE,
                                USE_CLAUDE_FALLBACK |-> FALSE,
                                USE_HYBRID_MODE |-> FALSE,
                                GOOGLE_APPLICATION_CREDENTIALS |-> FALSE])
                    EXCEPT !.pc = "idle"]

\* an ExtractedData value without content, and validate's result for it
NoData == [blocks |-> <<>>, recurringBlocks |-> <<>>, metadata |-> "none",
           warnings |-> <<>>]

NoResult == [data |-> NoData, warnings |-> <<>>]

\* no timetable at the validator
NoValidation == [pc |-> "idle", input |-> NoData, first |-> NoResult,
                 second |-> NoResult]

WebhookIds == 1..MaxWebhooks
WebhookJobIds == 1..MaxWebhookJobs

\* a webhook id without a row yet (jobId 0)
NoWebhook == [jobId |-> 0, delivered |-> FALSE, attempts |-> 0, maxAttempts |-> 0]

\* no triggerWebhooks call in progress
NoDelivery == [pc |-> "idle", jobId |-> 0, found |-> <<>>]

\* the worker process after worker.start(): every loop running
\* (restarts counts the times the process was started again after an exit)
Running == [isRunning |-> TRUE, pc |-> "running", restarts |-> 0]

\* no upload request made yet: the stores and the queue are empty
NoSubmission ==
    [pc |-> "idle", requests |-> 0, webhookUrl |-> FALSE, fileUrl |-> FALSE,
     job |-> FALSE, webhook |-> FALSE, enqueued |-> FALSE, tempFile |-> FALSE,
     response |-> 0,
     files |-> 0, jobRows |-> 0, webhookRows |-> 0, messages |-> 0]

\* what the analyzer's tests see of a text: its length (none at all, '',
\* under 100 characters, or more), the three OCR error indicators, the two
\* handwriting patterns and the average line length (under 20, under 40, more)
NoText ==
    [length |-> "undefined", punctuation |-> FALSE, singleChars |-> FALSE,
     noVowels |-> FALSE, inconsistentCaps |-> FALSE, ocrConfusion |-> FALSE,
     lineLength |-> "long"]

NoFile ==
    [mimeType |-> "", text |-> NoText, readOk |-> TRUE, convertOk |-> TRUE,
     textOk |-> TRUE]

NoProcessedFile == [text |-> NoText, imageBuffer |-> FALSE, mimeType |-> ""]

NoAnalysis ==
    [level |-> "", score |-> 0, reasons |-> <<>>, recommendedMethod |-> ""]

NoEnv ==
    [USE_DOCUMENT_AI |-> FALSE, USE_CLAUDE_FALLBACK |-> FALSE,
     USE_HYBRID_MODE |-> FALSE, GOOGLE_APPLICATION_CREDENTIALS |-> FALSE]

\* no artifact being classified
NoClassification ==
    [pc |-> "idle", file |-> NoFile, env |-> NoEnv, processedFile |-> NoProcessedFile,
     complexity |-> NoAnalysis, method |-> ""]

HostIdle ==
    /\ process = Running
    /\ submission = NoSubmission
    /\ classification = NoClassification

PipelineInit ==
    /\ jobs = [j \in JobIds |-> NoJob]
    /\ timetables = [j \in JobIds |-> 0]
    /\ retryLogs = [j \in JobIds |-> <<>>]
    /\ blobs = [j \in JobIds |-> 0]
    /\ queue = [j \in JobIds |-> NoMessage]
    /\ dlq = [j \in JobIds |-> 0]
    /\ workers = [w \in WorkerIds |-> IdleWorker]
    /\ cancelReq = [j \in JobIds |-> "idle"]
    /\ cancelResult = [j \in JobIds |-> "none"]
    /\ cancelCount = [j \in JobIds |-> 0]

ComponentsIdle ==
    /\ orchestrator = NoExtraction
    /\ validation = NoValidation
    /\ webhooks = [h \in WebhookIds |-> NoWebhook]
    /\ posts = [h \in WebhookIds |-> <<>>]
    /\ deliveries = [w \in WorkerIds |-> NoDelivery]
    /\ HostIdle

Init == PipelineInit /\ ComponentsIdle

\* ------------------------------------------------------------ submission
\* POST /upload after a successful artifact upload (a failed upload throws
\* before anything is stored): create the job row, then enqueueJob; when
\* enqueueJob throws, the handler answers 500 and the pending row stays.
Upload(j, enqueueOk) ==
    /\ jobs[j].status = "none"
    /\ \A i \in JobIds : i < j => jobs[i].status # "none"
    /\ jobs' = [jobs EXCEPT ![j] = NewJob]
    /\ queue' = [queue EXCEPT ![j] =
                    IF enqueueOk THEN [state |-> "visible", receives |-> 0,
                                      body |-> "descriptor"]
                    ELSE @]
    /\ UNCHANGED <<timetables, retryLogs, blobs, dlq, workers,
                   cancelReq, cancelResult, cancelCount>>
    /\ UNCHANGED componentVars


\* ---------------------------------------------------------- cancel endpoint
\* DELETE /jobs/:jobId, first await: findUnique, then the status test.  A job
\* that is processing or completed is refused with 400; any other status goes
\* on to the update.
CancelFind(j) ==
    /\ cancelReq[j] = "idle"
    /\ cancelCount[j] < MaxCancels
    /\ jobs[j].status # "none"
    /\ cancelCount' = [cancelCount EXCEPT ![j] = @ + 1]
    /\ IF jobs[j].status \in {"processing", "completed"}
          THEN /\ cancelResult' = [cancelResult EXCEPT ![j] = "rejected"]
               /\ UNCHANGED cancelReq
          ELSE /\ cancelReq' = [cancelReq EXCEPT ![j] = "update"]
               /\ UNCHANGED cancelResult
    /\ UNCHANGED <<jobs, timetables, retryLogs, blobs, queue, dlq, workers>>
    /\ UNCHANGED componentVars

\* DELETE /jobs/:jobId, second await: the unconditional update to 'cancelled'
CancelUpdate(j) ==
    /\ cancelReq[j] = "update"
    /\ jobs' = [jobs EXCEPT ![j].status = "cancelled", ![j].completedAt = TRUE]
    /\ cancelReq' = [cancelReq EXCEPT ![j] = "idle"]
    /\ cancelResult' = [cancelResult EXCEPT ![j] = "success"]
    /\ UNCHANGED <<timetables, retryLogs, blobs, queue, dlq, workers, cancelCount>>
    /\ UNCHANGED componentVars

\* ------------------------------------------------------------------ queue
\* The visibility timeout (300 s) of a received message expires: the message
\* is visible again, whether or not the worker that received it has finished.
VisibilityTimeout(j) ==
    /\ queue[j].state = "inflight"
    /\ queue' = [queue EXCEPT ![j].state = "visible"]
    /\ UNCHANGED <<jobs, timetables, retryLogs, blobs, dlq, workers,
                   cancelReq, cancelResult, cancelCount>>
    /\ UNCHANGED componentVars

\* SQSService.deleteMessage: the queue state after the call.  The call never
\* throws; when the service refuses it (error, or a receipt handle that is no
\* longer the latest) the message stays.
deleteMessage(q, j, deleted) ==
    IF deleted /\ q[j].state # "none" THEN [q EXCEPT ![j].state = "deleted"] ELSE q

\* SQSService.sendToDLQ: the DLQ after the call; a send error is only logged.
sendToDLQ(d, j, sent) ==
    IF sent THEN [d EXCEPT ![j] = @ + 1] ELSE d

\* number of deliveries the queue has made so far, over all messages
RECURSIVE SumReceives(_, _)
SumReceives(q, n) == IF n = 0 THEN 0 ELSE q[n].receives + SumReceives(q, n - 1)

Deliveries == SumReceives(queue, MaxJobs)

\* ----------------------------------------------------------------- worker
\* what a throw inside processMessage's try block leads to: the catch clause
\* calls handleJobFailure
Throw(w) == [workers EXCEPT ![w].pc = "handleJobFailure"]

\* what a throw out of handleJobFailure leads to: processLoop's catch logs,
\* sleeps and polls again
ProcessLoopCatch(w) == [workers EXCEPT ![w] = IdleWorker]

\* a receive by a loop that has not finished its current message
ReceiveMessagesAnytime(w, j) ==
    /\ queue[j].state = "visible"
    /\ parseMessage(queue[j].body) # "null"
    /\ Deliveries < MaxDeliveries
    /\ queue' = [queue EXCEPT ![j].state = "inflight", ![j].receives = @ + 1]
    /\ workers' = [workers EXCEPT ![w].pc = "updateProcessing", ![w].jobId = j,
                                  ![w].observed =
                                      IF jobs[j].status \in {"completed", "cancelled"}
                                         THEN jobs[j].status ELSE "live"]
    /\ UNCHANGED <<jobs, timetables, retryLogs, blobs, dlq,
                   cancelReq, cancelResult, cancelCount>>
    /\ UNCHANGED componentVars

\* processLoop: receiveMessages(1, 20) returned the message of job j, and
\* parseMessage gave its job descriptor
ReceiveMessages(w, j) ==
    /\ workers[w].pc = "poll"
    /\ queue[j].state = "visible"
    /\ parseMessage(queue[j].body) # "null"
    /\ Deliveries < MaxDeliveries
    /\ queue' = [queue EXCEPT ![j].state = "inflight", ![j].receives = @ + 1]
    /\ workers' = [workers EXCEPT ![w].pc = "updateProcessing", ![w].jobId = j,
                                  ![w].observed =
                                      IF jobs[j].status \in {"completed", "cancelled"}
                                         THEN jobs[j].status ELSE "live"]
    /\ UNCHANGED <<jobs, timetables, retryLogs, blobs, dlq,
                   cancelReq, cancelResult, cancelCount>>
    /\ UNCHANGED componentVars

\* ExtractionWorker.updateJobStatus: the job row after the unconditional update
updateJobStatus(js, j, status) ==
    [js EXCEPT ![j].status = status,
               ![j].startedAt = IF status = "processing" THEN TRUE ELSE @]

\* processMessage: await updateJobStatus(jobId, 'processing')
ProcessMessageStart(w, ok) ==
    LET j == workers[w].jobId IN
    /\ workers[w].pc = "updateProcessing"
    /\ IF ok THEN /\ jobs' = updateJobStatus(jobs, j, "processing")
                  /\ workers' = [workers EXCEPT ![w].pc = "extract"]
             ELSE /\ workers' = Throw(w)
                  /\ UNCHANGED jobs
    /\ UNCHANGED <<timetables, retryLogs, blobs, queue, dlq,
                   cancelReq, cancelResult, cancelCount>>
    /\ UNCHANGED componentVars

\* processMessage: await extractTimetable(jobData) returns a result or throws
ExtractTimetable(w, ok) ==
    /\ workers[w].pc = "extract"
    /\ workers' = IF ok THEN [workers EXCEPT ![w].pc = "uploadJSON"] ELSE Throw(w)
    /\ UNCHANGED <<jobs, timetables, retryLogs, blobs, queue, dlq,
                   cancelReq, cancelResult, cancelCount>>
    /\ UNCHANGED componentVars

\* saveResults: s3Service.uploadJSON(result.data, generateResultKey(jobId)),
\* an unconditional PutObject on results/{jobId}/extraction-result.json
SaveResultsUpload(w, ok) ==
    LET j == workers[w].jobId IN
    /\ workers[w].pc = "uploadJSON"
    /\ IF ok THEN /\ blobs' = [blobs EXCEPT ![j] = @ + 1]
                  /\ workers' = [workers EXCEPT ![w].pc = "createTimetable"]
             ELSE /\ workers' = Throw(w)
                  /\ UNCHANGED blobs
    /\ UNCHANGED <<jobs, timetables, retryLogs, queue, dlq,
                   cancelReq, cancelResult, cancelCount>>
    /\ UNCHANGED componentVars

\* saveResults: prisma.timetable.create with its nested block rows
SaveResultsCreateTimetable(w, ok) ==
    LET j == workers[w].jobId IN
    /\ workers[w].pc = "createTimetable"
    /\ IF ok THEN /\ timetables' = [timetables EXCEPT ![j] = @ + 1]
                  /\ workers' = [workers EXCEPT ![w].pc = "updateJob",
                                                ![w].timetableId = timetables[j] + 1]
             ELSE /\ workers' = Throw(w)
                  /\ UNCHANGED timetables
    /\ UNCHANGED <<jobs, retryLogs, blobs, queue, dlq,
                   cancelReq, cancelResult, cancelCount>>
    /\ UNCHANGED componentVars

\* a version of the job update of saveResults that forgets the timetable link
SaveResultsUpdateJobNoLink(w, ok) ==
    LET j == workers[w].jobId IN
    /\ workers[w].pc = "updateJob"
    /\ IF ok THEN /\ jobs' = [jobs EXCEPT ![j].resultUrl = TRUE,
                                          ![j].completedAt = TRUE]
                  /\ workers' = [workers EXCEPT ![w].pc = "updateCompleted"]
             ELSE /\ workers' = Throw(w)
                  /\ UNCHANGED jobs
    /\ UNCHANGED <<timetables, retryLogs, blobs, queue, dlq,
                   cancelReq, cancelResult, cancelCount>>
    /\ UNCHANGED componentVars

\* saveResults: prisma.extractionJob.update with timetableId, resultUrl,
\* processingMethod, complexity and completedAt (the status is not touched)
SaveResultsUpdateJob(w, ok) ==
    LET j == workers[w].jobId IN
    /\ workers[w].pc = "updateJob"
    /\ IF ok THEN /\ jobs' = [jobs EXCEPT ![j].timetableId = workers[w].timetableId,
                                          ![j].resultUrl = TRUE,
                                          ![j].completedAt = TRUE]
                  /\ workers' = [workers EXCEPT ![w].pc = "updateCompleted"]
             ELSE /\ workers' = Throw(w)
                  /\ UNCHANGED jobs
    /\ UNCHANGED <<timetables, retryLogs, blobs, queue, dlq,
                   cancelReq, cancelResult, cancelCount>>
    /\ UNCHANGED componentVars

\* processMessage: await updateJobStatus(jobId, 'completed')
ProcessMessageComplete(w, ok) ==
    LET j == workers[w].jobId IN
    /\ workers[w].pc = "updateCompleted"
    /\ IF ok THEN /\ jobs' = updateJobStatus(jobs, j, "completed")
                  /\ workers' = [workers EXCEPT ![w].pc = "triggerWebhooks"]
             ELSE /\ workers' = Throw(w)
                  /\ UNCHANGED jobs
    /\ UNCHANGED <<timetables, retryLogs, blobs, queue, dlq,
                   cancelReq, cancelResult, cancelCount>>
    /\ UNCHANGED componentVars

\* processMessage: await triggerWebhooks(jobId); it returns, or a store call
\* outside its per-webhook try (findMany, the update in the catch) throws
TriggerWebhooks(w, ok) ==
    /\ workers[w].pc = "triggerWebhooks"
    /\ workers' = IF ok THEN [workers EXCEPT ![w].pc = "deleteMessage"] ELSE Throw(w)
    /\ UNCHANGED <<jobs, timetables, retryLogs, blobs, queue, dlq,
                   cancelReq, cancelResult, cancelCount>>
    /\ UNCHANGED componentVars

\* processMessage: delete the message after success; back to the poll
ProcessMessageDelete(w, deleted) ==
    /\ workers[w].pc = "deleteMessage"
    /\ queue' = deleteMessage(queue, workers[w].jobId, deleted)
    /\ workers' = [workers EXCEPT ![w] = IdleWorker]
    /\ UNCHANGED <<jobs, timetables, retryLogs, blobs, dlq,
                   cancelReq, cancelResult, cancelCount>>
    /\ UNCHANGED componentVars

\* handleJobFailure: findUnique, then retryCount = job.retryCount + 1.  Job
\* rows are never deleted and a message is enqueued only after its row was
\* created, so the row is always found.
HandleJobFailureFind(w) ==
    LET j == workers[w].jobId IN
    /\ workers[w].pc = "handleJobFailure"
    /\ workers' = [workers EXCEPT ![w].pc = "retryLog",
                                  ![w].retryCount = jobs[j].retryCount + 1]
    /\ UNCHANGED <<jobs, timetables, retryLogs, blobs, queue, dlq,
                   cancelReq, cancelResult, cancelCount>>
    /\ UNCHANGED componentVars

\* handleJobFailure: prisma.retryLog.create with attemptNumber = retryCount,
\* then the branch on retryCount < maxRetries
HandleJobFailureLog(w, ok) ==
    LET j == workers[w].jobId IN
    /\ workers[w].pc = "retryLog"
    /\ IF ok THEN /\ retryLogs' = [retryLogs EXCEPT ![j] =
                                        Append(@, workers[w].retryCount)]
                  /\ workers' = [workers EXCEPT ![w].pc =
                        IF workers[w].retryCount < jobs[j].maxRetries
                           THEN "retryUpdate" ELSE "failedUpdate"]
             ELSE /\ workers' = ProcessLoopCatch(w)
                  /\ UNCHANGED retryLogs
    /\ UNCHANGED <<jobs, timetables, blobs, queue, dlq,
                   cancelReq, cancelResult, cancelCount>>
    /\ UNCHANGED componentVars

\* a retry branch that stores the error message only
HandleJobFailureRetryNoCount(w, ok) ==
    LET j == workers[w].jobId IN
    /\ workers[w].pc = "retryUpdate"
    /\ jobs' = IF ok THEN [jobs EXCEPT ![j].errorMessage = TRUE] ELSE jobs
    /\ workers' = [workers EXCEPT ![w] = IdleWorker]
    /\ UNCHANGED <<timetables, retryLogs, blobs, queue, dlq,
                   cancelReq, cancelResult, cancelCount>>
    /\ UNCHANGED componentVars

\* handleJobFailure, retryCount < maxRetries: store retryCount and the error
\* message; the message is left in the queue
HandleJobFailureRetry(w, ok) ==
    LET j == workers[w].jobId IN
    /\ workers[w].pc = "retryUpdate"
    /\ jobs' = IF ok THEN [jobs EXCEPT ![j].retryCount = workers[w].retryCount,
                                       ![j].errorMessage = TRUE]
                     ELSE jobs
    /\ workers' = [workers EXCEPT ![w] = IdleWorker]
    /\ UNCHANGED <<timetables, retryLogs, blobs, queue, dlq,
                   cancelReq, cancelResult, cancelCount>>
    /\ UNCHANGED componentVars

\* handleJobFailure, else branch: status 'failed', the error message and
\* completedAt (retryCount is not part of this update)
HandleJobFailureFinal(w, ok) ==
    LET j == workers[w].jobId IN
    /\ workers[w].pc = "failedUpdate"
    /\ IF ok THEN /\ jobs' = [jobs EXCEPT ![j].status = "failed",
                                          ![j].errorMessage = TRUE,
                                          ![j].completedAt = TRUE]
                  /\ workers' = [workers EXCEPT ![w].pc = "sendToDLQ"]
             ELSE /\ workers' = ProcessLoopCatch(w)
                  /\ UNCHANGED jobs
    /\ UNCHANGED <<timetables, retryLogs, blobs, queue, dlq,
                   cancelReq, cancelResult, cancelCount>>
    /\ UNCHANGED componentVars

\* handleJobFailure: await sqsService.sendToDLQ(jobData, message)
HandleJobFailureDLQ(w, sent) ==
    /\ workers[w].pc = "sendToDLQ"
    /\ dlq' = sendToDLQ(dlq, workers[w].jobId, sent)
    /\ workers' = [workers EXCEPT ![w].pc = "deleteFailed"]
    /\ UNCHANGED <<jobs, timetables, retryLogs, blobs, queue,
                   cancelReq, cancelResult, cancelCount>>
    /\ UNCHANGED componentVars

\* handleJobFailure: delete the message from the main queue; back to the poll
HandleJobFailureDelete(w, deleted) ==
    /\ workers[w].pc = "deleteFailed"
    /\ queue' = deleteMessage(queue, workers[w].jobId, deleted)
    /\ workers' = [workers EXCEPT ![w] = IdleWorker]
    /\ UNCHANGED <<jobs, timetables, retryLogs, blobs, dlq,
                   cancelReq, cancelResult, cancelCount>>
    /\ UNCHANGED componentVars

\* ---------------------------------------------------------- specification
Next ==
    \/ \E j \in JobIds, ok \in BOOLEAN : Upload(j, ok)
    \/ \E j \in JobIds : CancelFind(j)
    \/ \E j \in JobIds : CancelUpdate(j)
    \/ \E j \in JobIds : VisibilityTimeout(j)
    \/ \E w \in WorkerIds, j \in JobIds : ReceiveMessages(w, j)
    \/ \E w \in WorkerIds, ok \in BOOLEAN : ProcessMessageStart(w, ok)
    \/ \E w \in WorkerIds, ok \in BOOLEAN : ExtractTimetable(w, ok)
    \/ \E w \in WorkerIds, ok \in BOOLEAN : SaveResultsUpload(w, ok)
    \/ \E w \in WorkerIds, ok \in BOOLEAN : SaveResultsCreateTimetable(w, ok)
    \/ \E w \in WorkerIds, ok \in BOOLEAN : SaveResultsUpdateJob(w, ok)
    \/ \E w \in WorkerIds, ok \in BOOLEAN : ProcessMessageComplete(w, ok)
    \/ \E w \in WorkerIds, ok \in BOOLEAN : TriggerWebhooks(w, ok)
    \/ \E w \in WorkerIds, ok \in BOOLEAN : ProcessMessageDelete(w, ok)
    \/ \E w \in WorkerIds : HandleJobFailureFind(w)
    \/ \E w \in WorkerIds, ok \in BOOLEAN : HandleJobFailureLog(w, ok)
    \/ \E w \in WorkerIds, ok \in BOOLEAN : HandleJobFailureRetry(w, ok)
    \/ \E w \in WorkerIds, ok \in BOOLEAN : HandleJobFailureFinal(w, ok)
    \/ \E w \in WorkerIds, ok \in BOOLEAN : HandleJobFailureDLQ(w, ok)
    \/ \E w \in WorkerIds, ok \in BOOLEAN : HandleJobFailureDelete(w, ok)

Spec == Init /\ [][Next]_vars

\* ------------------------------------------------------------ type check
TypeOK ==
    /\ \A j \in JobIds :
          /\ jobs[j].status \in {"none", "pending", "processing", "completed",
                                 "failed", "cancelled"}
          /\ jobs[j].retryCount \in 0..DefaultMaxRetries
          /\ jobs[j].timetableId \in 0..timetables[j]
          /\ queue[j].state \in {"none", "visible", "inflight", "deleted"}
          /\ queue[j].receives \in 0..MaxDeliveries
    /\ \A w \in WorkerIds : workers[w].jobId \in 0..MaxJobs


\* ------------------------------------------- retry scenario (every attempt
\* fails, one delivery at a time)
\* the visibility timeout expires only after the worker that received the
\* message has finished with it
ExclusiveVisibilityTimeout(j) ==
    /\ \A w \in WorkerIds : workers[w].jobId # j
    /\ VisibilityTimeout(j)

\* Every extraction attempt throws, the Job Store answers every call, the
\* queue service may refuse a DLQ send or a delete, cancel requests arrive at
\* any time, and no message is ever held by two workers.
NextRetry ==
    \/ \E j \in JobIds : Upload(j, TRUE)
    \/ \E j \in JobIds : CancelFind(j)
    \/ \E j \in JobIds : CancelUpdate(j)
    \/ \E j \in JobIds : ExclusiveVisibilityTimeout(j)
    \/ \E w \in WorkerIds, j \in JobIds : ReceiveMessages(w, j)
    \/ \E w \in WorkerIds : ProcessMessageStart(w, TRUE)
    \/ \E w \in WorkerIds : ExtractTimetable(w, FALSE)
    \/ \E w \in WorkerIds : HandleJobFailureFind(w)
    \/ \E w \in WorkerIds : HandleJobFailureLog(w, TRUE)
    \/ \E w \in WorkerIds : HandleJobFailureRetry(w, TRUE)
    \/ \E w \in WorkerIds : HandleJobFailureFinal(w, TRUE)
    \/ \E w \in WorkerIds, ok \in BOOLEAN : HandleJobFailureDLQ(w, ok)
    \/ \E w \in WorkerIds, ok \in BOOLEAN : HandleJobFailureDelete(w, ok)

SpecRetry == Init /\ [][NextRetry]_vars


\* ------------------------------------------------------- process shutdown
\* process.on('SIGTERM' | 'SIGINT'): the handler calls worker.stop(), which
\* clears isRunning and then awaits prisma.$disconnect()
Signal ==
    /\ process.pc = "running"
    /\ process' = [process EXCEPT !.isRunning = FALSE, !.pc = "disconnecting"]
    /\ UNCHANGED <<pipelineVars, stageVars, submission, classification>>

\* the rest of the handler, once $disconnect has resolved: process.exit(0).
\* Nothing between stop() and exit waits for the drainer loops.
Exit ==
    /\ process.pc = "disconnecting"
    /\ process' = [process EXCEPT !.pc = "exited"]
    /\ UNCHANGED <<pipelineVars, stageVars, submission, classification>>

\* code of the process runs only until process.exit
Alive == process.pc # "exited"

\* processLoop: while (this.isRunning) is tested before each receiveMessages.
\* A receive that is already waiting when the flag is cleared is taken to come
\* back without a message.
LoopReceive(w, j) ==
    /\ process.isRunning
    /\ ReceiveMessages(w, j)

\* One worker process with its queue and Job Store: the services answer
\* every call, an extraction may throw, a signal can arrive at any time.
NextShutdown ==
    \/ Signal
    \/ Exit
    \/ \E j \in JobIds : Upload(j, TRUE)
    \/ \E j \in JobIds : VisibilityTimeout(j)
    \/ \E w \in WorkerIds, j \in JobIds : Alive /\ LoopReceive(w, j)
    \/ \E w \in WorkerIds : Alive /\ ProcessMessageStart(w, TRUE)
    \/ \E w \in WorkerIds, ok \in BOOLEAN : Alive /\ ExtractTimetable(w, ok)
    \/ \E w \in WorkerIds : Alive /\ SaveResultsUpload(w, TRUE)
    \/ \E w \in WorkerIds : Alive /\ SaveResultsCreateTimetable(w, TRUE)
    \/ \E w \in WorkerIds : Alive /\ SaveResultsUpdateJob(w, TRUE)
    \/ \E w \in WorkerIds : Alive /\ ProcessMessageComplete(w, TRUE)
    \/ \E w \in WorkerIds : Alive /\ TriggerWebhooks(w, TRUE)
    \/ \E w \in WorkerIds : Alive /\ ProcessMessageDelete(w, TRUE)
    \/ \E w \in WorkerIds : Alive /\ HandleJobFailureFind(w)
    \/ \E w \in WorkerIds : Alive /\ HandleJobFailureLog(w, TRUE)
    \/ \E w \in WorkerIds : Alive /\ HandleJobFailureRetry(w, TRUE)
    \/ \E w \in WorkerIds : Alive /\ HandleJobFailureFinal(w, TRUE)
    \/ \E w \in WorkerIds : Alive /\ HandleJobFailureDLQ(w, TRUE)
    \/ \E w \in WorkerIds : Alive /\ HandleJobFailureDelete(w, TRUE)

SpecShutdown == Init /\ [][NextShutdown]_vars

\* ------------------------------------------------ stop, restart, progress
\* the process is started again after an exit: worker.start() with new
\* drainer loops; what the old loops held in memory is gone
Start ==
    /\ process.pc = "exited"
    /\ process.restarts < MaxRestarts
    /\ process' = [Running EXCEPT !.restarts = process.restarts + 1]
    /\ workers' = [w \in WorkerIds |-> IdleWorker]
    /\ UNCHANGED <<jobs, timetables, retryLogs, blobs, queue, dlq,
                   cancelReq, cancelResult, cancelCount>>
    /\ UNCHANGED <<stageVars, submission, classification>>

\* a signal to a process that will be started again
RestartSignal ==
    /\ process.restarts < MaxRestarts
    /\ Signal

\* ReceiveMessages without a limit on the deliveries: the count of receives
\* (which the worker never reads) stays at MaxDeliveries once it is there
ReceiveMessagesAgain(w, j) ==
    /\ process.isRunning
    /\ workers[w].pc = "poll"
    /\ queue[j].state = "visible"
    /\ parseMessage(queue[j].body) # "null"
    /\ queue' = [queue EXCEPT ![j].state = "inflight",
                              ![j].receives = IF @ < MaxDeliveries THEN @ + 1 ELSE @]
    /\ workers' = [workers EXCEPT ![w].pc = "updateProcessing", ![w].jobId = j,
                                  ![w].observed =
                                      IF jobs[j].status \in {"completed", "cancelled"}
                                         THEN jobs[j].status ELSE "live"]
    /\ UNCHANGED <<jobs, timetables, retryLogs, blobs, dlq,
                   cancelReq, cancelResult, cancelCount>>
    /\ UNCHANGED componentVars

\* the steps of drainer loop w when the Job Store and the queue answer every
\* call and an extraction attempt ends in a result or a throw
LoopStep(w) ==
    /\ Alive
    /\ \/ \E j \in JobIds : ReceiveMessagesAgain(w, j)
       \/ ProcessMessageStart(w, TRUE)
       \/ \E ok \in BOOLEAN : ExtractTimetable(w, ok)
       \/ SaveResultsUpload(w, TRUE)
       \/ SaveResultsCreateTimetable(w, TRUE)
       \/ SaveResultsUpdateJob(w, TRUE)
       \/ ProcessMessageComplete(w, TRUE)
       \/ TriggerWebhooks(w, TRUE)
       \/ ProcessMessageDelete(w, TRUE)
       \/ HandleJobFailureFind(w)
       \/ HandleJobFailureLog(w, TRUE)
       \/ HandleJobFailureRetry(w, TRUE)
       \/ HandleJobFailureFinal(w, TRUE)
       \/ HandleJobFailureDLQ(w, TRUE)
       \/ HandleJobFailureDelete(w, TRUE)

NextLive ==
    \/ RestartSignal
    \/ Exit
    \/ Start
    \/ \E j \in JobIds : Upload(j, TRUE)
    \/ \E j \in JobIds : CancelFind(j)
    \/ \E j \in JobIds : CancelUpdate(j)
    \/ \E j \in JobIds : VisibilityTimeout(j)
    \/ \E w \in WorkerIds : LoopStep(w)

\* Every drainer loop of a running process goes on (each await comes back),
\* an undeleted message becomes visible again after the visibility timeout,
\* a signal handler runs to process.exit and a stopped process is started
\* again.
SpecLive ==
    /\ Init
    /\ [][NextLive]_vars
    /\ \A w \in WorkerIds : WF_vars(LoopStep(w))
    /\ \A j \in JobIds : WF_vars(VisibilityTimeout(j))
    /\ WF_vars(Exit)
    /\ WF_vars(Start)

\* ======================================================== orchestrator
\* ExtractionOrchestrator.extract, one step for each await.  A backend call
\* returns data or throws.

\* what ComplexityAnalyzer.analyze can return: recommendMethod gives
\* document_ai for simple, claude for complex and for handwriting (which alone
\* scores medium), hybrid for the rest of medium
Analyses ==
    { [level |-> "simple", recommendedMethod |-> "document_ai", reasons |-> <<>>],
      [level |-> "medium", recommendedMethod |-> "hybrid", reasons |-> <<>>],
      [level |-> "medium", recommendedMethod |-> "claude",
       reasons |-> <<"Possible handwritten content">>],
      [level |-> "complex", recommendedMethod |-> "claude", reasons |-> <<>>] }

\* the complexity literal of the error fallback
ErrorFallbackComplexity ==
    [level |-> "complex", recommendedMethod |-> "claude",
     reasons |-> <<"Primary extraction failed">>]

\* constructor: this.documentAI exists only when Document AI is enabled and
\* the credentials variable is set
documentAI(env) == env.USE_DOCUMENT_AI /\ env.GOOGLE_APPLICATION_CREDENTIALS

\* the if / else-if chain of extract
Route(env, recommendedMethod) ==
    IF ~env.USE_DOCUMENT_AI THEN "claude"
    ELSE IF recommendedMethod = "document_ai" /\ documentAI(env) THEN "document_ai"
    ELSE IF recommendedMethod = "claude" THEN "claude"
    ELSE IF recommendedMethod = "hybrid" /\ env.USE_HYBRID_MODE /\ documentAI(env)
         THEN "hybrid"
    ELSE "claude_fallback"

\* a throw inside the try block: the catch block goes on to the fallback call
\* when USE_CLAUDE_FALLBACK is 'true' and rethrows otherwise
Catch(o) ==
    [o EXCEPT !.pc = IF o.env.USE_CLAUDE_FALLBACK THEN "errorFallback" ELSE "thrown",
              !.failedAfter = Len(o.calls)]

\* a backend call of the try block that returned: on to the validator
Extracted(o, data, method) ==
    [o EXCEPT !.pc = "validate", !.data = data, !.method = method]

Called(o, call) == [o EXCEPT !.calls = Append(@, call)]

\* await complexityAnalyzer.analyze, then the routing
Analyze(complexity) ==
    /\ orchestrator.pc = "analyze"
    /\ orchestrator' = [orchestrator EXCEPT
                           !.complexity = complexity,
                           !.pc = Route(orchestrator.env,
                                        complexity.recommendedMethod)]
    /\ UNCHANGED <<pipelineVars, hostVars, validation, webhooks, posts, deliveries>>

\* await documentAI.extractTimetable on the fast path
ExtractDocumentAI(ok) ==
    /\ orchestrator.pc = "document_ai"
    /\ orchestrator' =
          LET o == Called(orchestrator, DocumentAIExtract) IN
          IF ok THEN Extracted(o, DocumentAIExtract, "document_ai") ELSE Catch(o)
    /\ UNCHANGED <<pipelineVars, hostVars, validation, webhooks, posts, deliveries>>

\* await claude.extractTimetable: Document AI disabled, or claude recommended
\* (method 'claude'), or the default branch (method 'claude_fallback')
ExtractClaude(ok) ==
    /\ orchestrator.pc \in {"claude", "claude_fallback"}
    /\ orchestrator' =
          LET o == Called(orchestrator, ClaudeExtract) IN
          IF ok THEN Extracted(o, ClaudeExtract, orchestrator.pc) ELSE Catch(o)
    /\ UNCHANGED <<pipelineVars, hostVars, validation, webhooks, posts, deliveries>>

\* hybrid branch, first pass: await documentAI.extractTimetable; the second
\* pass follows only when USE_CLAUDE_FALLBACK is 'true'
HybridDocumentAI(ok) ==
    /\ orchestrator.pc = "hybrid"
    /\ orchestrator' =
          LET o == Called(orchestrator, DocumentAIExtract) IN
          IF ~ok THEN Catch(o)
          ELSE IF o.env.USE_CLAUDE_FALLBACK
               THEN [o EXCEPT !.pc = "hybridValidate", !.data = DocumentAIExtract]
          ELSE Extracted(o, DocumentAIExtract, "document_ai")
    /\ UNCHANGED <<pipelineVars, hostVars, validation, webhooks, posts, deliveries>>

\* ClaudeService.validateExtraction: the throws of the call, of the type test
\* and of parseClaudeResponse all happen inside the try block, whose catch
\* returns documentAIData
validateExtraction(documentAIData, response) ==
    IF response = "json" THEN ClaudeValidate ELSE documentAIData

\* a validation whose errors reach the try block of extract
HybridValidateThrowing(response) ==
    /\ orchestrator.pc = "hybridValidate"
    /\ orchestrator' =
          LET o == [Called(orchestrator, ClaudeValidate)
                       EXCEPT !.validateResponse = response] IN
          IF response = "json"
             THEN Extracted(o, ClaudeValidate, "hybrid_documentai_claude")
             ELSE Catch(o)
    /\ UNCHANGED <<pipelineVars, hostVars, validation, webhooks, posts, deliveries>>

\* hybrid branch, second pass: await claude.validateExtraction(docAIData, ...)
HybridValidate(response) ==
    /\ orchestrator.pc = "hybridValidate"
    /\ orchestrator' =
          LET o == [Called(orchestrator, ClaudeValidate)
                       EXCEPT !.validateResponse = response] IN
          Extracted(o, validateExtraction(o.data, response),
                    "hybrid_documentai_claude")
    /\ UNCHANGED <<pipelineVars, hostVars, validation, webhooks, posts, deliveries>>

\* validator.validate(extractedData), then return with the method and the
\* analyzer's complexity
ValidateAndReturn ==
    /\ orchestrator.pc = "validate"
    /\ orchestrator' = [orchestrator EXCEPT !.pc = "returned", !.validated = TRUE]
    /\ UNCHANGED <<pipelineVars, hostVars, validation, webhooks, posts, deliveries>>

\* the error fallback with its result returned under the method and complexity
\* of the path that failed
ErrorFallbackUntagged(ok) ==
    /\ orchestrator.pc = "errorFallback"
    /\ orchestrator' =
          LET o == Called(orchestrator, ClaudeExtract) IN
          IF ok THEN [o EXCEPT !.pc = "returned", !.data = ClaudeExtract,
                               !.method = "claude"]
          ELSE [o EXCEPT !.pc = "thrown"]
    /\ UNCHANGED <<pipelineVars, hostVars, validation, webhooks, posts, deliveries>>

\* catch block with USE_CLAUDE_FALLBACK: await claude.extractTimetable; its
\* data is returned as it is, tagged 'claude_error_fallback'; when it throws,
\* 'All extraction methods failed' is thrown
ErrorFallback(ok) ==
    /\ orchestrator.pc = "errorFallback"
    /\ orchestrator' =
          LET o == Called(orchestrator, ClaudeExtract) IN
          IF ok THEN [o EXCEPT !.pc = "returned", !.data = ClaudeExtract,
                               !.method = "claude_error_fallback",
                               !.complexity = ErrorFallbackComplexity]
          ELSE [o EXCEPT !.pc = "thrown"]
    /\ UNCHANGED <<pipelineVars, hostVars, validation, webhooks, posts, deliveries>>

\* one call of extract under every environment
InitExtract ==
    /\ PipelineInit
    /\ \E env \in Envs : orchestrator = NewExtraction(env)
    /\ validation = NoValidation
    /\ webhooks = [h \in WebhookIds |-> NoWebhook]
    /\ posts = [h \in WebhookIds |-> <<>>]
    /\ deliveries = [w \in WorkerIds |-> NoDelivery]
    /\ HostIdle

NextExtract ==
    \/ \E complexity \in Analyses : Analyze(complexity)
    \/ \E ok \in BOOLEAN : ExtractDocumentAI(ok)
    \/ \E ok \in BOOLEAN : ExtractClaude(ok)
    \/ \E ok \in BOOLEAN : HybridDocumentAI(ok)
    \/ \E response \in ClaudeResponses : HybridValidate(response)
    \/ ValidateAndReturn
    \/ \E ok \in BOOLEAN : ErrorFallback(ok)

SpecExtract == InitExtract /\ [][NextExtract]_vars

\* ========================================================== classifier
\* FileProcessor.processFile, ComplexityAnalyzer.analyze and the routing of
\* ExtractionOrchestrator.extract for one artifact.  Scores are in
\* hundredths and the OCR confidence in thirtieths, so that the comparisons
\* of the code are exact.

ImageTypes == {"image/png", "image/jpeg"}
PdfType == "application/pdf"
DocxType ==
    "application/vnd.openxmlformats-officedocument.wordprocessingml.document"

\* processFile: the branch on the MIME type; every throw of a branch is
\* rethrown as 'File processing failed', so the result is a ProcessedFile or
\* a failure
processImage(file) ==
    IF file.readOk /\ file.convertOk /\ file.textOk
       THEN [failed |-> FALSE,
             file |-> [text |-> file.text, imageBuffer |-> TRUE,
                       mimeType |-> file.mimeType]]
       ELSE [failed |-> TRUE, file |-> NoProcessedFile]

processPDF(file) ==
    IF file.readOk /\ file.textOk
       THEN [failed |-> FALSE,
             file |-> [text |-> file.text, imageBuffer |-> TRUE,
                       mimeType |-> file.mimeType]]
       ELSE [failed |-> TRUE, file |-> NoProcessedFile]

processDOCX(file) ==
    IF file.readOk /\ file.textOk
       THEN [failed |-> FALSE,
             file |-> [text |-> file.text, imageBuffer |-> FALSE,
                       mimeType |-> file.mimeType]]
       ELSE [failed |-> TRUE, file |-> NoProcessedFile]

processFile(file) ==
    IF file.mimeType \in ImageTypes THEN processImage(file)
    ELSE IF file.mimeType = PdfType THEN processPDF(file)
    ELSE IF file.mimeType = DocxType THEN processDOCX(file)
    ELSE [failed |-> TRUE, file |-> NoProcessedFile]

\* if (processedFile.text): undefined and '' are falsy
HasText(processedFile) == processedFile.text.length \in {"short", "long"}

\* Math.max(0, 1 - errorIndicators / 30), in thirtieths
estimateOCRConfidence(processedFile) ==
    LET text == processedFile.text
        errorIndicators == (IF text.punctuation THEN 10 ELSE 0)
                           + (IF text.singleChars THEN 10 ELSE 0)
                           + (IF text.noVowels THEN 10 ELSE 0)
    IN  IF 30 - errorIndicators > 0 THEN 30 - errorIndicators ELSE 0

\* (processedFile.text?.length || 0) < 100
isScannedPDF(processedFile) == processedFile.text.length # "long"

\* the placeholder returns 0.7 for every buffer
analyzeImageQuality(buffer) == 70

detectHandwritingIndicators(text) == text.inconsistentCaps /\ text.ocrConfusion

analyzeLayoutComplexity(text) ==
    IF text.lineLength = "under20" THEN 80
    ELSE IF text.lineLength = "under40" THEN 50
    ELSE 30

\* the factors analyze sets, in the order of its five tests
Factors(processedFile) ==
    [hasLowOCRConfidence |->
         HasText(processedFile) /\ estimateOCRConfidence(processedFile) * 10 < 7 * 30,
     hasHandwriting |->
         HasText(processedFile) /\ detectHandwritingIndicators(processedFile.text),
     hasComplexLayout |->
         HasText(processedFile) /\ analyzeLayoutComplexity(processedFile.text) > 70,
     hasColorCoding |-> FALSE,
     hasMergedCells |-> FALSE,
     hasVerticalText |-> FALSE,
     isLowQuality |->
         \/ processedFile.mimeType = PdfType /\ isScannedPDF(processedFile)
         \/ /\ processedFile.mimeType \in ImageTypes /\ processedFile.imageBuffer
            /\ analyzeImageQuality(processedFile.imageBuffer) < 60]

\* the reasons analyze pushes, in its order
Reasons(processedFile) ==
    LET f == Factors(processedFile) IN
    (IF f.hasLowOCRConfidence THEN <<"Low OCR confidence detected">> ELSE <<>>)
    \o (IF processedFile.mimeType = PdfType /\ isScannedPDF(processedFile)
           THEN <<"Scanned PDF detected">> ELSE <<>>)
    \o (IF /\ processedFile.mimeType \in ImageTypes /\ processedFile.imageBuffer
           /\ analyzeImageQuality(processedFile.imageBuffer) < 60
           THEN <<"Low image quality">> ELSE <<>>)
    \o (IF f.hasHandwriting THEN <<"Possible handwritten content">> ELSE <<>>)
    \o (IF f.hasComplexLayout THEN <<"Complex table layout">> ELSE <<>>)

weights ==
    [hasLowOCRConfidence |-> 25, hasHandwriting |-> 30, hasComplexLayout |-> 15,
     hasColorCoding |-> 10, hasMergedCells |-> 10, hasVerticalText |-> 5,
     isLowQuality |-> 5]

FactorNames ==
    <<"hasLowOCRConfidence", "hasHandwriting", "hasComplexLayout", "hasColorCoding",
      "hasMergedCells", "hasVerticalText", "isLowQuality">>

RECURSIVE SumWeights(_, _)
SumWeights(factors, i) ==
    IF i > Len(FactorNames) THEN 0
    ELSE (IF factors[FactorNames[i]] THEN weights[FactorNames[i]] ELSE 0)
         + SumWeights(factors, i + 1)

\* Math.min(1, score)
calculateComplexityScore(factors) ==
    LET score == SumWeights(factors, 1) IN IF score < 100 THEN score ELSE 100

\* a recommendation that looks at the level only
recommendByLevel(level, factors) ==
    IF level = "simple" THEN "document_ai"
    ELSE IF level = "complex" THEN "claude"
    ELSE "hybrid"

recommendMethod(level, factors) ==
    IF level = "simple" THEN "document_ai"
    ELSE IF level = "complex" \/ factors.hasHandwriting THEN "claude"
    ELSE "hybrid"

analyze(processedFile) ==
    LET factors == Factors(processedFile)
        score == calculateComplexityScore(factors)
        level == IF score < 30 THEN "simple"
                 ELSE IF score < 60 THEN "medium"
                 ELSE "complex"
    IN  [level |-> level, score |-> score, reasons |-> Reasons(processedFile),
         recommendedMethod |-> recommendMethod(level, factors)]

\* extractTimetable: await FileProcessor.processFile(...); a throw ends the
\* attempt
ProcessFile ==
    /\ classification.pc = "processFile"
    /\ LET result == processFile(classification.file) IN
       classification' =
          IF result.failed THEN [classification EXCEPT !.pc = "failed"]
          ELSE [classification EXCEPT !.pc = "analyze",
                                      !.processedFile = result.file]
    /\ UNCHANGED <<pipelineVars, stageVars, process, submission>>

\* extract, step 1: await this.complexityAnalyzer.analyze(processedFile)
AnalyzeComplexity ==
    /\ classification.pc = "analyze"
    /\ classification' =
          [classification EXCEPT !.pc = "route",
                                 !.complexity = analyze(classification.processedFile)]
    /\ UNCHANGED <<pipelineVars, stageVars, process, submission>>

\* extract, step 2: the branch taken by the if / else-if chain
RouteExtraction ==
    /\ classification.pc = "route"
    /\ classification' =
          [classification EXCEPT
              !.pc = "extract",
              !.method = Route(classification.env,
                               classification.complexity.recommendedMethod)]
    /\ UNCHANGED <<pipelineVars, stageVars, process, submission>>

TextLengths == {"empty", "short", "long"}
LineLengths == {"under20", "under40", "long"}

\* the texts OCR, pdf-parse or mammoth can return
Texts(length) ==
    IF length = "empty" THEN {[NoText EXCEPT !.length = "empty"]}
    ELSE [length : {length}, punctuation : BOOLEAN, singleChars : BOOLEAN,
          noVowels : BOOLEAN, inconsistentCaps : BOOLEAN, ocrConfusion : BOOLEAN,
          lineLength : LineLengths]

MimeTypes == ImageTypes \union {PdfType, DocxType, "text/plain"}

\* one artifact of any type and content, under every environment, with the
\* file read, the PNG conversion and the text extraction each able to throw
InitClassify ==
    /\ PipelineInit
    /\ orchestrator = NoExtraction
    /\ validation = NoValidation
    /\ webhooks = [h \in WebhookIds |-> NoWebhook]
    /\ posts = [h \in WebhookIds |-> <<>>]
    /\ deliveries = [w \in WorkerIds |-> NoDelivery]
    /\ process = Running
    /\ submission = NoSubmission
    /\ \E mimeType \in MimeTypes, length \in TextLengths, env \in Envs,
          readOk \in BOOLEAN, convertOk \in BOOLEAN, textOk \in BOOLEAN :
       \E text \in Texts(length) :
          classification =
             [NoClassification EXCEPT
                 !.pc = "processFile",
                 !.env = env,
                 !.file = [mimeType |-> mimeType, text |-> text, readOk |-> readOk,
                           convertOk |-> convertOk, textOk |-> textOk]]

NextClassify == ProcessFile \/ AnalyzeComplexity \/ RouteExtraction

SpecClassify == InitClassify /\ [][NextClassify]_vars

\* ========================================================= upload route
\* POST /upload, one step for each await.  The fields requests .. response are
\* the locals of the request being served (and of the last one served when
\* pc is "idle"); files, jobRows, webhookRows and messages count what the
\* Blob Store, the Job Store and the queue hold.

\* the catch block: unlink the temp file if there is one, then next(error)
UploadCatch(u, status) ==
    [u EXCEPT !.pc = "idle", !.tempFile = FALSE, !.response = status]

\* a request arrives; without a file it is refused with 400
UploadRequest(hasFile, webhookUrl) ==
    /\ submission.pc = "idle"
    /\ submission.requests < MaxSubmissions
    /\ LET u == [submission EXCEPT !.requests = @ + 1, !.webhookUrl = webhookUrl,
                                   !.fileUrl = FALSE, !.job = FALSE,
                                   !.webhook = FALSE, !.enqueued = FALSE,
                                   !.tempFile = hasFile, !.response = 0]
       IN submission' = IF hasFile THEN [u EXCEPT !.pc = "uploadFile"]
                                   ELSE UploadCatch(u, 400)
    /\ UNCHANGED <<pipelineVars, stageVars, process, classification>>

\* Step 1: await s3Service.uploadFile(filePath, s3Key, mimeType)
UploadFile(ok) ==
    /\ submission.pc = "uploadFile"
    /\ submission' = IF ok THEN [submission EXCEPT !.pc = "createJob",
                                                   !.fileUrl = TRUE,
                                                   !.files = @ + 1]
                           ELSE UploadCatch(submission, 500)
    /\ UNCHANGED <<pipelineVars, stageVars, process, classification>>

\* a job creation whose error is not thrown
CreateJobUnchecked(ok) ==
    /\ submission.pc = "createJob"
    /\ submission' = [submission EXCEPT
                         !.pc = IF submission.webhookUrl THEN "createWebhook"
                                                         ELSE "enqueueJob",
                         !.job = ok,
                         !.jobRows = IF ok THEN @ + 1 ELSE @]
    /\ UNCHANGED <<pipelineVars, stageVars, process, classification>>

\* Step 2: await prisma.extractionJob.create({status: 'pending'}), then the
\* test of webhookUrl
CreateJob(ok) ==
    /\ submission.pc = "createJob"
    /\ submission' = IF ok THEN [submission EXCEPT
                                    !.pc = IF submission.webhookUrl
                                              THEN "createWebhook" ELSE "enqueueJob",
                                    !.job = TRUE,
                                    !.jobRows = @ + 1]
                           ELSE UploadCatch(submission, 500)
    /\ UNCHANGED <<pipelineVars, stageVars, process, classification>>

\* Step 3: await prisma.webhook.create({jobId, url})
CreateWebhook(ok) ==
    /\ submission.pc = "createWebhook"
    /\ submission' = IF ok THEN [submission EXCEPT !.pc = "enqueueJob",
                                                   !.webhook = TRUE,
                                                   !.webhookRows = @ + 1]
                           ELSE UploadCatch(submission, 500)
    /\ UNCHANGED <<pipelineVars, stageVars, process, classification>>

\* Step 4: await sqsService.enqueueJob(...), which throws when the send fails
EnqueueJob(ok) ==
    /\ submission.pc = "enqueueJob"
    /\ submission' = IF ok THEN [submission EXCEPT !.pc = "unlink",
                                                   !.enqueued = TRUE,
                                                   !.messages = @ + 1]
                           ELSE UploadCatch(submission, 500)
    /\ UNCHANGED <<pipelineVars, stageVars, process, classification>>

\* Steps 5 and 6: await fs.unlink(filePath), then the 202 response
UnlinkAndRespond(ok) ==
    /\ submission.pc = "unlink"
    /\ submission' = IF ok THEN [submission EXCEPT !.pc = "idle",
                                                   !.tempFile = FALSE,
                                                   !.response = 202]
                           ELSE UploadCatch(submission, 500)
    /\ UNCHANGED <<pipelineVars, stageVars, process, classification>>

NextUpload ==
    \/ \E hasFile \in BOOLEAN, webhookUrl \in BOOLEAN :
          UploadRequest(hasFile, webhookUrl)
    \/ \E ok \in BOOLEAN : UploadFile(ok)
    \/ \E ok \in BOOLEAN : CreateJob(ok)
    \/ \E ok \in BOOLEAN : CreateWebhook(ok)
    \/ \E ok \in BOOLEAN : EnqueueJob(ok)
    \/ \E ok \in BOOLEAN : UnlinkAndRespond(ok)

SpecUpload == Init /\ [][NextUpload]_vars

\* =========================================================== validator
\* ExtractionValidator.  A time 'HH:MM' is the pair <<HH, MM>>; a block's
\* notes are 0 when it has none and g for 'Auto-inserted to fill g-minute gap'.
DAYS == <<"Monday", "Tuesday", "Wednesday", "Thursday", "Friday">>

\* split(':').map(Number), then hours * 60 + minutes
timeToMinutes(time) == time[1] * 60 + time[2]

RECURSIVE InsertByStart(_, _)
\* b goes behind every block that does not start later than it does
InsertByStart(sorted, b) ==
    IF sorted = <<>> THEN <<b>>
    ELSE IF timeToMinutes(Head(sorted).startTime) <= timeToMinutes(b.startTime)
         THEN <<Head(sorted)>> \o InsertByStart(Tail(sorted), b)
    ELSE <<b>> \o sorted

RECURSIVE SortByStart(_)
\* Array.prototype.sort with the startTime comparator: stable, so blocks with
\* equal starts keep their order
SortByStart(blocks) ==
    IF blocks = <<>> THEN <<>>
    ELSE InsertByStart(SortByStart(SubSeq(blocks, 1, Len(blocks) - 1)),
                       blocks[Len(blocks)])

\* data.blocks.filter(b => b.day === day)
DayBlocks(blocks, day) == SelectSeq(blocks, LAMBDA b : b.day = day)

getRecurringTimeRanges(recurringBlocks) ==
    [i \in 1..Len(recurringBlocks) |->
        [start |-> timeToMinutes(recurringBlocks[i].startTime),
         end |-> timeToMinutes(recurringBlocks[i].endTime)]]

\* a test that misses a window lying inside the gap
overlapsRecurringBlockEnds(startMinutes, endMinutes, recurringRanges) ==
    \E i \in 1..Len(recurringRanges) :
        LET range == recurringRanges[i] IN
        \/ startMinutes >= range.start /\ startMinutes < range.end
        \/ endMinutes > range.start /\ endMinutes <= range.end

overlapsRecurringBlock(startMinutes, endMinutes, recurringRanges) ==
    \E i \in 1..Len(recurringRanges) :
        LET range == recurringRanges[i] IN
        \/ startMinutes >= range.start /\ startMinutes < range.end
        \/ endMinutes > range.start /\ endMinutes <= range.end
        \/ startMinutes <= range.start /\ endMinutes >= range.end

\* a ValidationWarning; its message is the template with the values it
\* interpolates
Warning(type, day, template, gapMinutes, names, times) ==
    [type |-> type, day |-> day,
     message |-> [template |-> template, day |-> day, gapMinutes |-> gapMinutes,
                  names |-> names, times |-> times]]

\* the overlap is reported and the previous block is left as it is
KeepOverlap(result, current) == result

\* prev.endTime = current.startTime at an overlap (prev is the last block of
\* result)
TrimOverlap(result, current) ==
    [result EXCEPT ![Len(result)].endTime = current.startTime]

\* the small gap is reported and the previous block is left as it is
KeepSmallGap(result, current) == result

\* prev.endTime = current.startTime over a small gap
ExtendPrevious(result, current) ==
    [result EXCEPT ![Len(result)].endTime = current.startTime]

\* an inserted block that is a Free Period whatever the gap
FreePeriodBlock(day, prev, current, gapMinutes) ==
    [day |-> day, startTime |-> prev.endTime, endTime |-> current.startTime,
     eventName |-> "Free Period", notes |-> gapMinutes, isFixed |-> FALSE]

\* the block inserted into a larger gap
TransitionBlock(day, prev, current, gapMinutes) ==
    [day |-> day, startTime |-> prev.endTime, endTime |-> current.startTime,
     eventName |-> IF gapMinutes >= FreePeriodMinutes THEN "Free Period"
                   ELSE "Transition",
     notes |-> gapMinutes, isFixed |-> FALSE]

\* one round of validateDay's loop: acc is result and warnings so far
ValidateDayStep(day, acc, current, recurringRanges) ==
    LET prev == acc.blocks[Len(acc.blocks)]
        prevEndMinutes == timeToMinutes(prev.endTime)
        currentStartMinutes == timeToMinutes(current.startTime)
        gapMinutes == currentStartMinutes - prevEndMinutes
        gapTimes == <<prev.endTime, current.startTime>>
    IN  IF gapMinutes < 0
        THEN [blocks |-> Append(TrimOverlap(acc.blocks, current), current),
              warnings |-> Append(acc.warnings,
                  Warning("overlap", day, "overlaps with", 0,
                          <<prev.eventName, current.eventName>>,
                          <<prev.startTime, prev.endTime,
                            current.startTime, current.endTime>>))]
        ELSE IF gapMinutes = 0
        THEN [blocks |-> Append(acc.blocks, current), warnings |-> acc.warnings]
        ELSE IF overlapsRecurringBlock(prevEndMinutes, currentStartMinutes,
                                       recurringRanges)
        THEN [blocks |-> Append(acc.blocks, current),
              warnings |-> Append(acc.warnings,
                  Warning("gap", day, "covered by recurring block - not filled",
                          gapMinutes, <<>>, gapTimes))]
        ELSE IF gapMinutes <= SmallGapMinutes
        THEN [blocks |-> Append(ExtendPrevious(acc.blocks, current), current),
              warnings |-> Append(acc.warnings,
                  Warning("gap", day, "filled by extending", gapMinutes,
                          <<prev.eventName>>, gapTimes))]
        ELSE LET transitionBlock == TransitionBlock(day, prev, current, gapMinutes)
             IN  [blocks |-> acc.blocks \o <<transitionBlock, current>>,
                  warnings |-> Append(acc.warnings,
                      Warning("gap", day, "filled with block", gapMinutes,
                              <<transitionBlock.eventName>>, gapTimes))]

RECURSIVE ValidateDayLoop(_, _, _, _, _)
ValidateDayLoop(day, blocks, i, acc, recurringRanges) ==
    IF i > Len(blocks) THEN acc
    ELSE ValidateDayLoop(day, blocks, i + 1,
                         ValidateDayStep(day, acc, blocks[i], recurringRanges),
                         recurringRanges)

validateDay(day, blocks, recurringRanges) ==
    IF blocks = <<>> THEN [blocks |-> <<>>, warnings |-> <<>>]
    ELSE ValidateDayLoop(day, blocks, 2,
                         [blocks |-> <<blocks[1]>>, warnings |-> <<>>],
                         recurringRanges)

RECURSIVE ValidateDays(_, _, _, _)
\* validate's loop over DAYS: a day without blocks is skipped, the blocks of
\* other days are not copied
ValidateDays(data, d, acc, recurringTimeRanges) ==
    IF d > Len(DAYS) THEN acc
    ELSE LET dayBlocks == SortByStart(DayBlocks(data.blocks, DAYS[d]))
             fixed == validateDay(DAYS[d], dayBlocks, recurringTimeRanges)
         IN  ValidateDays(data, d + 1,
                          [blocks |-> acc.blocks \o fixed.blocks,
                           warnings |-> acc.warnings \o fixed.warnings],
                          recurringTimeRanges)

Messages(warnings) == [i \in 1..Len(warnings) |-> warnings[i].message]

validate(data) ==
    LET fixed == ValidateDays(data, 1, [blocks |-> <<>>, warnings |-> <<>>],
                              getRecurringTimeRanges(data.recurringBlocks))
    IN  [data |-> [data EXCEPT !.blocks = fixed.blocks,
                               !.warnings = data.warnings \o Messages(fixed.warnings)],
         warnings |-> fixed.warnings]

\* ------------------------------------------------ timetables to validate
\* 09:50, 09:55, 10:00, 10:06, 10:10: two blocks that both have startTime <
\* endTime can be 5, 6 or 11 minutes apart; with any start and end, the gaps
\* are 4, 5, 6, 10, 11, 15, 16 and 20 minutes
Times == {<<9, 50>>, <<9, 55>>, <<10, 0>>, <<10, 6>>, <<10, 10>>}

\* a recurring block starts and ends at 09:55 or 10:06: the window 09:55-10:06
\* covers some of the gaps (the 5 minutes 09:55-10:00 among them) and not
\* others, and a window can be empty or have its end before its start
RecurringTimes == {<<9, 55>>, <<10, 6>>}

InputDays == {"Monday", "Saturday"}

EventName(i) == <<"Maths", "English", "Science", "Art", "Music", "PE">>[i]

\* a block list an extraction can return: any day, any start and end (also
\* end before start), the i-th block named EventName(i)
Blocks(n, day, startTime, endTime) ==
    [i \in 1..n |-> [day |-> day[i], startTime |-> startTime[i],
                     endTime |-> endTime[i], eventName |-> EventName(i),
                     notes |-> 0, isFixed |-> TRUE]]

\* the ExtractedData a backend returns
Extraction(blocks, recurringBlocks) ==
    [blocks |-> blocks, recurringBlocks |-> recurringBlocks,
     metadata |-> "metadata", warnings |-> <<>>]

\* validator.validate(extractedData)
Validate ==
    /\ validation.pc = "extracted"
    /\ validation' = [validation EXCEPT !.pc = "validated",
                                        !.first = validate(validation.input)]
    /\ UNCHANGED <<pipelineVars, hostVars, orchestrator, webhooks, posts, deliveries>>

\* validate applied to the data it returned
ValidateAgain ==
    /\ validation.pc = "validated"
    /\ validation' = [validation EXCEPT !.pc = "revalidated",
                                        !.second = validate(validation.first.data)]
    /\ UNCHANGED <<pipelineVars, hostVars, orchestrator, webhooks, posts, deliveries>>

InitValidate ==
    /\ PipelineInit
    /\ orchestrator = NoExtraction
    /\ \E n \in 0..MaxBlocks, k \in 0..MaxRecurring :
       \E day \in [1..n -> InputDays], startTime \in [1..n -> Times],
          endTime \in [1..n -> Times],
          recurringBlocks \in [1..k -> [startTime : RecurringTimes,
                                        endTime : RecurringTimes]] :
          validation = [NoValidation EXCEPT
                           !.pc = "extracted",
                           !.input = Extraction(Blocks(n, day, startTime, endTime),
                                                recurringBlocks)]
    /\ webhooks = [h \in WebhookIds |-> NoWebhook]
    /\ posts = [h \in WebhookIds |-> <<>>]
    /\ deliveries = [w \in WorkerIds |-> NoDelivery]
    /\ HostIdle

NextValidate == Validate \/ ValidateAgain

SpecValidate == InitValidate /\ [][NextValidate]_vars

\* ============================================================ webhooks
\* Webhook rows and ExtractionWorker.triggerWebhooks, one step for each await.
\* A worker calls triggerWebhooks(jobId) each time it has marked the job
\* completed, so calls for one job can repeat and can overlap.

\* prisma.webhook.create, in POST /upload when a webhookUrl is given and in
\* POST /jobs/:jobId/webhook.  The schema is not part of the sources, so the
\* default of maxAttempts is any positive number.
RegisterWebhook(h, j, maxAttempts) ==
    /\ webhooks[h].jobId = 0
    /\ \A i \in WebhookIds : i < h => webhooks[i].jobId # 0
    /\ webhooks' = [webhooks EXCEPT ![h] = [jobId |-> j, delivered |-> FALSE,
                                            attempts |-> 0,
                                            maxAttempts |-> maxAttempts]]
    /\ UNCHANGED <<pipelineVars, hostVars, orchestrator, validation, posts, deliveries>>

RECURSIVE Undelivered(_, _)
\* findMany({jobId, delivered: false}): the rows as they are read, ids 1..n
Undelivered(j, n) ==
    IF n = 0 THEN <<>>
    ELSE IF webhooks[n].jobId = j /\ ~webhooks[n].delivered
         THEN Append(Undelivered(j, n - 1),
                     [id |-> n, attempts |-> webhooks[n].attempts,
                      maxAttempts |-> webhooks[n].maxAttempts])
    ELSE Undelivered(j, n - 1)

\* the for loop goes on to the next webhook, or triggerWebhooks returns
NextWebhook(d) ==
    IF Len(d.found) = 1 THEN NoDelivery
    ELSE [d EXCEPT !.found = Tail(@), !.pc = "post"]

\* triggerWebhooks(j): await findMany
TriggerWebhooksFind(w, j) ==
    /\ deliveries[w].pc = "idle"
    /\ Undelivered(j, MaxWebhooks) # <<>>
    /\ deliveries' = [deliveries EXCEPT ![w] =
                         [pc |-> "post", jobId |-> j,
                          found |-> Undelivered(j, MaxWebhooks)]]
    /\ UNCHANGED <<pipelineVars, hostVars, orchestrator, validation, webhooks, posts>>

\* the POST with every answer taken for a success
WebhookPostUnchecked(w, response) ==
    /\ deliveries[w].pc = "post"
    /\ LET h == Head(deliveries[w].found).id IN
          /\ Len(posts[h]) < MaxPosts
          /\ posts' = [posts EXCEPT ![h] =
                          Append(@, [jobId |-> deliveries[w].jobId,
                                     response |-> response])]
    /\ deliveries' = [deliveries EXCEPT ![w].pc =
                         IF response # "error" THEN "markDelivered"
                         ELSE "recordFailure"]
    /\ UNCHANGED <<pipelineVars, hostVars, orchestrator, validation, webhooks>>

\* await fetch(webhook.url, POST {jobId, status, timestamp}): a 2xx answer,
\* another answer, or no answer (fetch rejects); only response.ok goes on to
\* the delivered update, everything else to the catch block
WebhookPost(w, response) ==
    /\ deliveries[w].pc = "post"
    /\ LET h == Head(deliveries[w].found).id IN
          /\ Len(posts[h]) < MaxPosts
          /\ posts' = [posts EXCEPT ![h] =
                          Append(@, [jobId |-> deliveries[w].jobId,
                                     response |-> response])]
    /\ deliveries' = [deliveries EXCEPT ![w].pc =
                         IF response = "2xx" THEN "markDelivered"
                         ELSE "recordFailure"]
    /\ UNCHANGED <<pipelineVars, hostVars, orchestrator, validation, webhooks>>

\* await update({delivered: true}); when the update throws, the same catch
\* block takes it for a failed delivery
WebhookMarkDelivered(w, ok) ==
    /\ deliveries[w].pc = "markDelivered"
    /\ LET h == Head(deliveries[w].found).id IN
          IF ok
          THEN /\ webhooks' = [webhooks EXCEPT ![h].delivered = TRUE]
               /\ deliveries' = [deliveries EXCEPT ![w] = NextWebhook(@)]
          ELSE /\ deliveries' = [deliveries EXCEPT ![w].pc = "recordFailure"]
               /\ UNCHANGED webhooks
    /\ UNCHANGED <<pipelineVars, hostVars, orchestrator, validation, posts>>

\* catch block: attempts = webhook.attempts + 1 from the row as findMany read
\* it; stored only while attempts < maxAttempts; when that update throws,
\* triggerWebhooks throws
WebhookRecordFailure(w, ok) ==
    /\ deliveries[w].pc = "recordFailure"
    /\ LET webhook == Head(deliveries[w].found)
           attempts == webhook.attempts + 1
       IN  IF attempts < webhook.maxAttempts
           THEN IF ok
                THEN /\ webhooks' = [webhooks EXCEPT ![webhook.id].attempts = attempts]
                     /\ deliveries' = [deliveries EXCEPT ![w] = NextWebhook(@)]
                ELSE /\ deliveries' = [deliveries EXCEPT ![w] = NoDelivery]
                     /\ UNCHANGED webhooks
           ELSE /\ ok
                /\ deliveries' = [deliveries EXCEPT ![w] = NextWebhook(@)]
                /\ UNCHANGED webhooks
    /\ UNCHANGED <<pipelineVars, hostVars, orchestrator, validation, posts>>

NextWebhooks ==
    \/ \E h \in WebhookIds, j \in WebhookJobIds, maxAttempts \in 1..MaxAttemptsLimit :
          RegisterWebhook(h, j, maxAttempts)
    \/ \E w \in WorkerIds, j \in WebhookJobIds : TriggerWebhooksFind(w, j)
    \/ \E w \in WorkerIds, response \in {"2xx", "non2xx", "error"} :
          WebhookPost(w, response)
    \/ \E w \in WorkerIds, ok \in BOOLEAN : WebhookMarkDelivered(w, ok)
    \/ \E w \in WorkerIds, ok \in BOOLEAN : WebhookRecordFailure(w, ok)

SpecWebhooks == Init /\ [][NextWebhooks]_vars

\* ------------------------------------------------------- stray messages
\* Messages in the main queue that the upload route did not send, or whose
\* job row is not in the store.

\* a SendMessage to the main queue by something other than POST /upload
SendForeign(j, body) ==
    /\ jobs[j].status = "none"
    /\ queue[j].state = "none"
    /\ queue' = [queue EXCEPT ![j] = [state |-> "visible", receives |-> 0,
                                      body |-> body]]
    /\ UNCHANGED <<jobs, timetables, retryLogs, blobs, dlq, workers,
                   cancelReq, cancelResult, cancelCount>>
    /\ UNCHANGED componentVars

\* processLoop: receiveMessages returned a message and parseMessage gave null
ReceiveUnparsed(w, j) ==
    /\ process.isRunning
    /\ workers[w].pc = "poll"
    /\ queue[j].state = "visible"
    /\ parseMessage(queue[j].body) = "null"
    /\ queue' = [queue EXCEPT ![j].state = "inflight",
                              ![j].receives = IF @ < MaxDeliveries THEN @ + 1 ELSE @]
    /\ workers' = [workers EXCEPT ![w].pc = "deleteUnparsed", ![w].jobId = j]
    /\ UNCHANGED <<jobs, timetables, retryLogs, blobs, dlq,
                   cancelReq, cancelResult, cancelCount>>
    /\ UNCHANGED componentVars

\* processMessage, !jobData: await deleteMessage(ReceiptHandle), return
ProcessMessageDeleteUnparsed(w, deleted) ==
    /\ workers[w].pc = "deleteUnparsed"
    /\ queue' = deleteMessage(queue, workers[w].jobId, deleted)
    /\ workers' = [workers EXCEPT ![w] = IdleWorker]
    /\ UNCHANGED <<jobs, timetables, retryLogs, blobs, dlq,
                   cancelReq, cancelResult, cancelCount>>
    /\ UNCHANGED componentVars

\* the job row of the message that loop w holds is in the store
RowExists(w) == workers[w].pc # "poll" /\ jobs[workers[w].jobId].status # "none"

\* processMessage: updateJobStatus(jobId, 'processing') on a job id without a
\* row: prisma's update rejects (record to update not found)
ProcessMessageStartNoRow(w) ==
    /\ workers[w].pc = "updateProcessing"
    /\ jobs[workers[w].jobId].status = "none"
    /\ workers' = Throw(w)
    /\ UNCHANGED <<jobs, timetables, retryLogs, blobs, queue, dlq,
                   cancelReq, cancelResult, cancelCount>>
    /\ UNCHANGED componentVars

\* handleJobFailure: findUnique returns null; 'Job not found' is logged and
\* the function returns
HandleJobFailureNotFound(w) ==
    /\ workers[w].pc = "handleJobFailure"
    /\ jobs[workers[w].jobId].status = "none"
    /\ workers' = [workers EXCEPT ![w] = IdleWorker]
    /\ UNCHANGED <<jobs, timetables, retryLogs, blobs, queue, dlq,
                   cancelReq, cancelResult, cancelCount>>
    /\ UNCHANGED componentVars

\* the steps of drainer loop w with a Job Store and a queue that answer every
\* call
StrayStep(w) ==
    \/ \E j \in JobIds : ReceiveMessagesAgain(w, j)
    \/ \E j \in JobIds : ReceiveUnparsed(w, j)
    \/ ProcessMessageDeleteUnparsed(w, TRUE)
    \/ ProcessMessageStartNoRow(w)
    \/ HandleJobFailureNotFound(w)
    \/ RowExists(w) /\ ProcessMessageStart(w, TRUE)
    \/ \E ok \in BOOLEAN : ExtractTimetable(w, ok)
    \/ SaveResultsUpload(w, TRUE)
    \/ SaveResultsCreateTimetable(w, TRUE)
    \/ SaveResultsUpdateJob(w, TRUE)
    \/ ProcessMessageComplete(w, TRUE)
    \/ TriggerWebhooks(w, TRUE)
    \/ ProcessMessageDelete(w, TRUE)
    \/ RowExists(w) /\ HandleJobFailureFind(w)
    \/ HandleJobFailureLog(w, TRUE)
    \/ HandleJobFailureRetry(w, TRUE)
    \/ HandleJobFailureFinal(w, TRUE)
    \/ HandleJobFailureDLQ(w, TRUE)
    \/ HandleJobFailureDelete(w, TRUE)

\* (job ids are made by the store for new rows: an upload never gives a row
\* to the id that a foreign message names)
NextStray ==
    \/ \E j \in JobIds : queue[j].state = "none" /\ Upload(j, TRUE)
    \/ \E j \in JobIds, body \in Bodies : SendForeign(j, body)
    \/ \E j \in JobIds : VisibilityTimeout(j)
    \/ \E w \in WorkerIds : StrayStep(w)

\* every loop goes on, and an undeleted message becomes visible again after
\* the visibility timeout
SpecStray ==
    /\ Init
    /\ [][NextStray]_vars
    /\ \A w \in WorkerIds : WF_vars(StrayStep(w))
    /\ \A j \in JobIds : WF_vars(VisibilityTimeout(j))

\* --------------------------------------------- completion with webhooks
\* processMessage with its call of triggerWebhooks run step by step for the
\* job of the message, and the webhook endpoint beside it.

\* POST /jobs/:jobId/webhook: findUnique finds the job row (in any status),
\* then webhook.create
RegisterForJob(h, j, maxAttempts) ==
    /\ jobs[j].status # "none"
    /\ RegisterWebhook(h, j, maxAttempts)

\* await triggerWebhooks(jobId): findMany returns no row and the call returns
TriggerWebhooksNone(w) ==
    /\ TriggerWebhooks(w, TRUE)
    /\ Undelivered(workers[w].jobId, MaxWebhooks) = <<>>

\* await triggerWebhooks(jobId): findMany returns rows and the for loop begins
TriggerWebhooksSome(w) ==
    LET j == workers[w].jobId IN
    /\ workers[w].pc = "triggerWebhooks"
    /\ deliveries[w].pc = "idle"
    /\ Undelivered(j, MaxWebhooks) # <<>>
    /\ deliveries' = [deliveries EXCEPT ![w] =
                         [pc |-> "post", jobId |-> j,
                          found |-> Undelivered(j, MaxWebhooks)]]
    /\ workers' = [workers EXCEPT ![w].pc = "delivering"]
    /\ UNCHANGED <<jobs, timetables, retryLogs, blobs, queue, dlq,
                   cancelReq, cancelResult, cancelCount>>
    /\ UNCHANGED <<hostVars, orchestrator, validation, webhooks, posts>>

\* one await inside the for loop of the call that worker w is in
DeliveryStep(w) ==
    /\ workers[w].pc = "delivering"
    /\ \/ \E response \in {"2xx", "non2xx", "error"} : WebhookPost(w, response)
       \/ \E ok \in BOOLEAN : WebhookMarkDelivered(w, ok)
       \/ WebhookRecordFailure(w, TRUE)

\* the for loop is over: triggerWebhooks returns to processMessage
TriggerWebhooksReturn(w) ==
    /\ workers[w].pc = "delivering"
    /\ deliveries[w].pc = "idle"
    /\ workers' = [workers EXCEPT ![w].pc = "deleteMessage"]
    /\ UNCHANGED <<jobs, timetables, retryLogs, blobs, queue, dlq,
                   cancelReq, cancelResult, cancelCount>>
    /\ UNCHANGED componentVars

\* the update in the catch block throws: out of triggerWebhooks and into the
\* catch of processMessage
TriggerWebhooksUpdateThrows(w) ==
    /\ workers[w].pc = "delivering"
    /\ deliveries[w].pc = "recordFailure"
    /\ LET webhook == Head(deliveries[w].found)
       IN  webhook.attempts + 1 < webhook.maxAttempts
    /\ deliveries' = [deliveries EXCEPT ![w] = NoDelivery]
    /\ workers' = Throw(w)
    /\ UNCHANGED <<jobs, timetables, retryLogs, blobs, queue, dlq,
                   cancelReq, cancelResult, cancelCount>>
    /\ UNCHANGED <<hostVars, orchestrator, validation, webhooks, posts>>

\* the steps of loop w on a message whose attempt succeeds, with a Job Store
\* that answers every call
NotifyStep(w) ==
    \/ \E j \in JobIds : ReceiveMessages(w, j)
    \/ ProcessMessageStart(w, TRUE)
    \/ ExtractTimetable(w, TRUE)
    \/ SaveResultsUpload(w, TRUE)
    \/ SaveResultsCreateTimetable(w, TRUE)
    \/ SaveResultsUpdateJob(w, TRUE)
    \/ ProcessMessageComplete(w, TRUE)
    \/ TriggerWebhooksNone(w)
    \/ TriggerWebhooksSome(w)
    \/ DeliveryStep(w)
    \/ TriggerWebhooksReturn(w)
    \/ ProcessMessageDelete(w, TRUE)

NextNotify ==
    \/ \E j \in JobIds : Upload(j, TRUE)
    \/ \E h \in WebhookIds, j \in JobIds, maxAttempts \in 1..MaxAttemptsLimit :
          RegisterForJob(h, j, maxAttempts)
    \/ \E w \in WorkerIds : NotifyStep(w)

\* every loop goes on: each await of processMessage and of triggerWebhooks
\* comes back
SpecNotify ==
    /\ Init
    /\ [][NextNotify]_vars
    /\ \A w \in WorkerIds : WF_vars(NotifyStep(w))

\* the same with redelivery: the message reappears while a loop still works
\* on it, and a second loop completes the job as well
NextNotifyAgain ==
    \/ NextNotify
    \/ \E j \in JobIds : VisibilityTimeout(j)

SpecNotifyAgain == Init /\ [][NextNotifyAgain]_vars

\* one delivery of the message with a webhook store that can fail inside
\* triggerWebhooks, and the failure protocol that the throw enters (the first
\* failure of a job takes the retry branch)
NextNotifyFailing ==
    \/ NextNotify
    \/ \E w \in WorkerIds :
          \/ TriggerWebhooks(w, FALSE)
          \/ TriggerWebhooksUpdateThrows(w)
          \/ HandleJobFailureFind(w)
          \/ HandleJobFailureLog(w, TRUE)
          \/ HandleJobFailureRetry(w, TRUE)

SpecNotifyFailing == Init /\ [][NextNotifyFailing]_vars

\* ================================================================ claims
Handled(j) == \E w \in WorkerIds : workers[w].jobId = j

\* the worker w takes this step
Steps(w) == workers'[w] # workers[w]

LegalTransition(a, b) ==
    \/ a = b
    \/ <<a, b>> \in {<<"none", "pending">>, <<"pending", "processing">>,
                     <<"processing", "completed">>, <<"processing", "failed">>,
                     <<"pending", "cancelled">>}

\* C1: every change of a job's status is Pending->Processing,
\* Processing->Completed, Processing->Failed or Pending->Cancelled (after the
\* creation as Pending); a Completed, Failed or Cancelled job never changes
\* status again.
C1_StatusDAG ==
    [][\A j \in JobIds : LegalTransition(jobs[j].status, jobs'[j].status)]_vars

\* C2: a worker that received the message of a job that was already Completed
\* only deletes the message: it never reaches extraction, never writes the
\* result blob, never creates a timetable row and never changes the job row.
C2_DuplicateAfterCompleted ==
    [][\A w \in WorkerIds :
          (workers[w].observed = "completed" /\ Steps(w)) =>
             LET j == workers[w].jobId IN
             /\ workers'[w].pc \in {"deleteMessage", "poll"}
             /\ jobs'[j] = jobs[j]
             /\ blobs'[j] = blobs[j]
             /\ timetables'[j] = timetables[j]]_vars

\* C3: a worker that received the message of a Cancelled job only deletes the
\* message: no extraction, and no change to the job row, the RetryLog, the
\* result blob or the timetable rows; the job stays Cancelled.
C3_CancelledIsSkipped ==
    [][\A w \in WorkerIds :
          (workers[w].observed = "cancelled" /\ Steps(w)) =>
             LET j == workers[w].jobId IN
             /\ workers'[w].pc \in {"deleteMessage", "poll"}
             /\ jobs'[j] = jobs[j]
             /\ retryLogs'[j] = retryLogs[j]
             /\ blobs'[j] = blobs[j]
             /\ timetables'[j] = timetables[j]]_vars

\* C4: every Failed job has retryCount = maxRetries and a non-null error message.
C4_FailedHasRetries ==
    \A j \in JobIds :
        jobs[j].status = "failed" =>
            /\ jobs[j].retryCount = jobs[j].maxRetries
            /\ jobs[j].errorMessage

\* C5: at most one DLQ record per job, and exactly one once the job is Failed
\* and the DLQ step of its failure handling is over.
C5_OneDLQRecord ==
    \A j \in JobIds :
        /\ dlq[j] <= 1
        /\ (/\ jobs[j].status = "failed"
            /\ \A w \in WorkerIds :
                  ~(workers[w].jobId = j /\ workers[w].pc = "sendToDLQ"))
           => dlq[j] = 1

\* C6: when every attempt fails, maxRetries is 3 and deliveries never overlap,
\* then after the third attempt the job is Failed, the RetryLog holds the
\* attempts 1, 2, 3, there is exactly one DLQ record and the message has been
\* deleted; after the first and the second attempt the message is still there.
C6_RetryThenDLQ ==
    \A j \in JobIds :
        (jobs[j].maxRetries = 3 /\ ~Handled(j)) =>
            /\ queue[j].receives = 3 =>
                  /\ jobs[j].status = "failed"
                  /\ retryLogs[j] = <<1, 2, 3>>
                  /\ dlq[j] = 1
                  /\ queue[j].state = "deleted"
            /\ queue[j].receives \in {1, 2} =>
                  /\ jobs[j].status # "failed"
                  /\ retryLogs[j] = [i \in 1..queue[j].receives |-> i]
                  /\ dlq[j] = 0
                  /\ queue[j].state # "deleted"

\* C7: every Completed job has a non-null reference to a timetable row, and
\* the row it names exists.
C7_CompletedHasTimetable ==
    \A j \in JobIds :
        jobs[j].status = "completed" => jobs[j].timetableId \in 1..timetables[j]

\* a job has just been completed by a worker that saved its results
C7_Witness ==
    \E w \in WorkerIds :
        /\ workers[w].pc = "triggerWebhooks"
        /\ jobs[workers[w].jobId].status = "completed"
        /\ jobs[workers[w].jobId].timetableId = workers[w].timetableId

\* C8: a job that is not Completed carries neither a timetable reference nor
\* a result URL, and no timetable row exists for it.
C8_AtomicCompletion ==
    \A j \in JobIds :
        jobs[j].status # "completed" =>
            /\ jobs[j].timetableId = 0
            /\ ~jobs[j].resultUrl
            /\ timetables[j] = 0

\* C9: the result blob key of a job is written at most once.
C9_BlobWrittenOnce == \A j \in JobIds : blobs[j] <= 1

\* C10: a cancel request writes Cancelled only over a Pending job; a request
\* for a job that is Processing, Completed, Failed or Cancelled is answered
\* with an error and changes nothing.
C10_CancelOnlyPending ==
    [][\A j \in JobIds :
          /\ (cancelReq[j] = "update" /\ cancelReq'[j] = "idle")
                => jobs[j].status = "pending"
          /\ (/\ cancelCount'[j] # cancelCount[j]
              /\ jobs[j].status \in {"processing", "completed", "failed", "cancelled"})
                => /\ cancelResult'[j] = "rejected"
                   /\ cancelReq'[j] = "idle"
                   /\ jobs' = jobs]_vars

\* C11: a job never stays Pending without a message on the queue: when the
\* enqueue fails after the job row was created, the job is marked Failed.
C11_NoOrphanPending ==
    \A j \in JobIds :
        queue[j].state = "none" => jobs[j].status \in {"none", "failed"}

\* C12: every result extract returns, on a primary path or on the error
\* fallback, went through validator.validate before it was returned.
C12_ReturnedIsValidated ==
    orchestrator.pc = "returned" => orchestrator.validated

\* each block (or recurring block) of the list has startTime < endTime
WellFormed(blocks) ==
    \A i \in 1..Len(blocks) :
        timeToMinutes(blocks[i].startTime) < timeToMinutes(blocks[i].endTime)

Weekdays == {DAYS[d] : d \in 1..Len(DAYS)}

\* the blocks validate returned for one day, sorted by startTime
OutputOfDay(day) == SortByStart(DayBlocks(validation.first.data.blocks, day))

\* C13: for an input whose blocks all have startTime < endTime, the output of
\* validate has no overlap: on every weekday the blocks sorted by startTime
\* satisfy endTime[i] <= startTime[i+1].
C13_NoOverlap ==
    validation.pc # "extracted" /\ WellFormed(validation.input.blocks) =>
        \A day \in Weekdays :
            LET sorted == OutputOfDay(day) IN
            \A i \in 1..(Len(sorted) - 1) :
                timeToMinutes(sorted[i].endTime)
                    <= timeToMinutes(sorted[i + 1].startTime)

\* validate has trimmed an overlap of two well-formed blocks
C13_Witness ==
    /\ validation.pc = "validated"
    /\ WellFormed(validation.input.blocks)
    /\ \E i \in 1..Len(validation.first.warnings) :
          validation.first.warnings[i].type = "overlap"

\* C14: for an input whose blocks all have startTime < endTime, however they
\* overlap, every block of the output of validate has startTime < endTime.
C14_PositiveLength ==
    validation.pc # "extracted" /\ WellFormed(validation.input.blocks) =>
        WellFormed(validation.first.data.blocks)

\* the interval [from, to) and the window of some recurring block have a
\* minute in common
IntersectsRecurring(from, to, recurringBlocks) ==
    \E i \in 1..Len(recurringBlocks) :
        LET start == timeToMinutes(recurringBlocks[i].startTime)
            end == timeToMinutes(recurringBlocks[i].endTime)
        IN  \E minute \in from..(to - 1) : start <= minute /\ minute < end

\* consecutive blocks of every weekday of the output are contiguous or
\* separated by a gap that intersects a recurring window
GapsOnlyUnderRecurring ==
    \A day \in Weekdays :
        LET sorted == OutputOfDay(day) IN
        \A i \in 1..(Len(sorted) - 1) :
            \/ timeToMinutes(sorted[i].endTime)
                   = timeToMinutes(sorted[i + 1].startTime)
            \/ IntersectsRecurring(timeToMinutes(sorted[i].endTime),
                                   timeToMinutes(sorted[i + 1].startTime),
                                   validation.first.data.recurringBlocks)

\* C15: in the output of validate, consecutive blocks of a weekday (sorted by
\* startTime) either touch (endTime[i] = startTime[i+1]) or are separated by
\* an interval that intersects the window of some recurring block.
C15_GapsOnlyUnderRecurring ==
    validation.pc # "extracted" => GapsOnlyUnderRecurring

\* C15 for well-formed inputs: when the blocks and the recurring blocks of the
\* input all have startTime < endTime, consecutive blocks of a weekday of the
\* output either touch or are separated by an interval that intersects the
\* window of some recurring block.
C15_WellFormedGapsOnlyUnderRecurring ==
    /\ validation.pc # "extracted"
    /\ WellFormed(validation.input.blocks)
    /\ WellFormed(validation.input.recurringBlocks)
    => GapsOnlyUnderRecurring

\* validate has left a gap open because a well-formed recurring block covers it
C15_Witness ==
    /\ validation.pc = "validated"
    /\ WellFormed(validation.input.blocks)
    /\ WellFormed(validation.input.recurringBlocks)
    /\ \E i \in 1..Len(validation.first.warnings) :
          validation.first.warnings[i].message.template
              = "covered by recurring block - not filled"

\* C16: validate is idempotent: validate applied to the data it returned gives
\* the same data again, in blocks, recurringBlocks, metadata and warnings.
C16_Idempotent ==
    validation.pc = "revalidated" =>
        validation.second.data = validation.first.data

\* C17: every block validate inserts is a Transition or a Free Period, starts
\* at the end of the block before it and ends at the start of the block after
\* it in the output, is longer than 5 minutes, and is a Transition exactly
\* when it is shorter than 10 minutes.
C17_InsertedFillsGap ==
    validation.pc # "extracted" =>
        LET out == validation.first.data.blocks IN
        \A i \in 1..Len(out) :
            out[i].notes # 0 =>
                LET gap == timeToMinutes(out[i].endTime)
                               - timeToMinutes(out[i].startTime)
                IN  /\ 1 < i /\ i < Len(out)
                    /\ out[i - 1].day = out[i].day /\ out[i + 1].day = out[i].day
                    /\ out[i].eventName \in {"Transition", "Free Period"}
                    /\ out[i - 1].endTime = out[i].startTime
                    /\ out[i].endTime = out[i + 1].startTime
                    /\ gap > 5
                    /\ (out[i].eventName = "Transition") <=> (gap < 10)

\* validate has inserted a Transition and a Free Period
C17_Witness ==
    /\ validation.pc = "validated"
    /\ \E i, k \in 1..Len(validation.first.data.blocks) :
          /\ validation.first.data.blocks[i].notes # 0
          /\ validation.first.data.blocks[i].eventName = "Transition"
          /\ validation.first.data.blocks[k].notes # 0
          /\ validation.first.data.blocks[k].eventName = "Free Period"

\* the backend calls the routing rule asks for: Document AI alone when it is
\* enabled and recommended, Claude alone when Claude is recommended or
\* Document AI is disabled, Document AI and then Claude's validation when
\* hybrid is recommended and enabled, Claude alone otherwise
RuleCalls(env, recommendedMethod) ==
    IF documentAI(env) /\ recommendedMethod = "document_ai"
    THEN <<DocumentAIExtract>>
    ELSE IF recommendedMethod = "claude" \/ ~env.USE_DOCUMENT_AI
    THEN <<ClaudeExtract>>
    ELSE IF recommendedMethod = "hybrid" /\ env.USE_HYBRID_MODE
    THEN <<DocumentAIExtract, ClaudeValidate>>
    ELSE <<ClaudeExtract>>

\* C18: the path extract takes is a function of the recommendation and the
\* flags: a primary path that has run to its end has made exactly the backend
\* calls of the routing rule, in that order.
C18_RoutingRule ==
    /\ orchestrator.pc \in {"validate", "returned"}
    /\ orchestrator.failedAfter = -1
    => orchestrator.calls = RuleCalls(orchestrator.env,
                                      orchestrator.complexity.recommendedMethod)

\* C19: when the chosen path throws and USE_CLAUDE_FALLBACK is set, Claude is
\* called exactly once more; its result is returned as 'claude_error_fallback'
\* with complexity complex and the single reason 'Primary extraction failed';
\* when that call throws, or the flag is not set, extract throws and no
\* further backend call is made.
C19_ErrorFallback ==
    LET o == orchestrator IN
    o.failedAfter >= 0 =>
        IF o.env.USE_CLAUDE_FALLBACK
        THEN /\ o.pc \in {"errorFallback", "returned", "thrown"}
             /\ o.pc = "errorFallback" => Len(o.calls) = o.failedAfter
             /\ o.pc \in {"returned", "thrown"} =>
                   /\ Len(o.calls) = o.failedAfter + 1
                   /\ o.calls[Len(o.calls)] = ClaudeExtract
             /\ o.pc = "returned" =>
                   /\ o.method = "claude_error_fallback"
                   /\ o.complexity.level = "complex"
                   /\ o.complexity.reasons = <<"Primary extraction failed">>
        ELSE o.pc = "thrown" /\ Len(o.calls) = o.failedAfter

\* the chosen path has thrown and the fallback call has returned
C19_Witness ==
    /\ orchestrator.failedAfter >= 0
    /\ orchestrator.pc = "returned"

\* C20: a webhook whose delivered flag is true has received at least one POST
\* carrying the jobId of its job that was answered with a 2xx status.
C20_DeliveredWas2xx ==
    \A h \in WebhookIds :
        webhooks[h].delivered =>
            \E i \in 1..Len(posts[h]) :
                /\ posts[h][i].jobId = webhooks[h].jobId
                /\ posts[h][i].response = "2xx"

\* a webhook has been marked delivered
C20_Witness == \E h \in WebhookIds : webhooks[h].delivered

RECURSIVE FailedPosts(_)
\* the number of POSTs of the sequence that were not answered with a 2xx
FailedPosts(ps) ==
    IF ps = <<>> THEN 0
    ELSE (IF Head(ps).response # "2xx" THEN 1 ELSE 0) + FailedPosts(Tail(ps))

\* some triggerWebhooks call is between its POST to webhook h and the end of
\* its handling of the answer
Delivering(h) ==
    \E w \in WorkerIds :
        /\ deliveries[w].pc \in {"markDelivered", "recordFailure"}
        /\ Head(deliveries[w].found).id = h

\* C21: each failed delivery attempt (non-2xx answer or transport error) adds
\* exactly one to the webhook's attempts, so that between deliveries attempts
\* is the number of failed POSTs; and once attempts has reached maxAttempts
\* no further POST is made to the webhook.
C21_AttemptsCountFailures ==
    [][\A h \in WebhookIds :
          /\ ~Delivering(h)' =>
                webhooks'[h].attempts = FailedPosts(posts'[h])
          /\ webhooks[h].jobId # 0 /\ webhooks[h].attempts >= webhooks[h].maxAttempts
                => posts'[h] = posts[h]]_vars


\* C22: the process exits on SIGTERM or SIGINT only when no drainer loop is
\* still handling a message, so that no store write of a job in flight at
\* the signal is cut off.
C22_ExitAfterInFlight ==
    process.pc = "exited" => \A w \in WorkerIds : workers[w].pc = "poll"


\* the steps of worker w's handleJobFailure call on job j in its retry branch
RetryLogStep(w, j) ==
    /\ workers[w].pc = "retryLog" /\ workers[w].jobId = j
    /\ jobs[j].retryCount + 1 < jobs[j].maxRetries
    /\ workers'[w].pc # "retryLog"

RetryUpdateStep(w, j) ==
    /\ workers[w].pc = "retryUpdate" /\ workers[w].jobId = j
    /\ workers'[w].pc # "retryUpdate"

C24_EnqueueLast ==
    [][/\ submission'.messages # submission.messages
            => /\ submission'.messages = submission.messages + 1
               /\ submission.fileUrl /\ submission.job
               /\ submission.webhookUrl => submission.webhook
               /\ submission'.jobRows = submission.jobRows
               /\ submission'.files = submission.files
       /\ submission'.enqueued => submission'.fileUrl /\ submission'.job]_vars

\* a request with a webhook URL has gone through: file, job row, webhook row
\* and message all exist
C24_Witness ==
    /\ submission.response = 202
    /\ submission.webhookUrl /\ submission.webhook /\ submission.enqueued
    /\ submission.messages = 1 /\ submission.jobRows = 1 /\ submission.files = 1


\* the artifact has been analyzed
Analyzed == classification.pc \in {"route", "extract"}

Active(reason) ==
    \E i \in 1..Len(classification.complexity.reasons) :
        classification.complexity.reasons[i] = reason

Weight(reason, weight) == IF Active(reason) THEN weight ELSE 0

\* C25: the score is the sum of the weights of the active factors (low OCR
\* confidence 0.25, handwriting 0.30, complex layout 0.15, scanned PDF 0.05,
\* image quality 0.05); the level is simple below 0.30, medium below 0.60 and
\* complex otherwise; the recommendation is structured (document_ai) for
\* simple, vision (claude) for complex or with the handwriting factor, and
\* hybrid in every other case.
C25_ScoreLevelRecommendation ==
    Analyzed =>
        LET c == classification.complexity
            score == Weight("Low OCR confidence detected", 25)
                     + Weight("Possible handwritten content", 30)
                     + Weight("Complex table layout", 15)
                     + Weight("Scanned PDF detected", 5)
                     + Weight("Low image quality", 5)
        IN  /\ c.score = score
            /\ c.level = (IF score < 30 THEN "simple"
                          ELSE IF score < 60 THEN "medium" ELSE "complex")
            /\ c.recommendedMethod =
                  (IF c.level = "complex" \/ Active("Possible handwritten content")
                      THEN "claude"
                   ELSE IF c.level = "simple" THEN "document_ai"
                   ELSE "hybrid")

\* handwriting is the only active factor: medium by the score, vision by the
\* handwriting clause
C25_Witness ==
    /\ Analyzed
    /\ classification.complexity.reasons = <<"Possible handwritten content">>
    /\ classification.complexity.score = 30
    /\ classification.complexity.level = "medium"
    /\ classification.complexity.recommendedMethod = "claude"

\* C26: whenever the handwriting indicator is triggered, the level is
\* complex and the orchestrator extracts with a vision (Claude) method.
C26_HandwritingIsComplexVision ==
    /\ Analyzed /\ Active("Possible handwritten content")
          => classification.complexity.level = "complex"
    /\ classification.pc = "extract" /\ Active("Possible handwritten content")
          => classification.method \in {"claude", "claude_fallback"}

\* C27: when OCR fails on an image artifact that was read and converted,
\* processFile still returns: the image bytes, without text.
C27_OCRFailureDegrades ==
    /\ classification.file.mimeType \in ImageTypes
    /\ classification.file.readOk /\ classification.file.convertOk
    /\ ~classification.file.textOk
    /\ classification.pc # "processFile"
    => /\ classification.pc # "failed"
       /\ classification.processedFile.imageBuffer
       /\ ~HasText(classification.processedFile)


\* the drainer loops that are handling a message
Busy == {w \in WorkerIds : workers[w].pc # "poll"}

\* C28: a worker process handles at most N messages at a time (N drainer
\* loops, NumWorkers here), and a loop receives a message only when it holds
\* none, having finished the one before; a receive hands one message to one
\* loop and leaves the other loops as they are.
C28_OneMessagePerLoop ==
    [][/\ Cardinality(Busy') <= NumWorkers
       /\ \A j \in JobIds :
             queue'[j].receives # queue[j].receives
                => /\ queue'[j].receives = queue[j].receives + 1
                   /\ \A i \in JobIds \ {j} : queue'[i] = queue[i]
                   /\ \E w \in WorkerIds :
                         /\ workers[w] = IdleWorker
                         /\ workers'[w].pc # "poll" /\ workers'[w].jobId = j
                         /\ \A v \in WorkerIds \ {w} : workers'[v] = workers[v]
       /\ \A w \in WorkerIds :
             workers[w].pc # "poll" /\ workers'[w].jobId # workers[w].jobId
                => workers'[w] = IdleWorker]_vars

\* every loop is handling a message, and one has received again after
\* finishing a message
C28_Witness ==
    /\ Busy = WorkerIds
    /\ \E j \in JobIds : queue[j].receives > NumWorkers


\* C29: a cancel request that reported success on a Pending job is final:
\* the job is not Processing or Completed afterwards and no timetable is
\* linked to it; a worker that starts the job first makes the cancel fail.
C29_CancelIsFinal ==
    \A j \in JobIds :
        cancelResult[j] = "success"
            => /\ jobs[j].status \notin {"processing", "completed"}
               /\ jobs[j].timetableId = 0

\* worker w applies the transition to Completed to job j
Completes(w, j) ==
    /\ workers[w].jobId = j
    /\ workers[w].pc = "updateCompleted"
    /\ workers'[w].pc = "triggerWebhooks"

\* C30: for every job at most one timetable row is ever created and linked,
\* and the transition to Completed is applied at most once (never to a job
\* that is already Completed), also when two workers hold the same message
\* after a visibility timeout.
C30_SingleResult ==
    [][\A j \in JobIds :
          /\ timetables'[j] <= 1
          /\ \A w \in WorkerIds :
                Completes(w, j) => jobs[j].status # "completed"]_vars


\* C31: when the validation call of the hybrid branch fails, for whatever
\* reason, extract goes on with exactly the data Document AI returned and
\* does not enter its catch block.
C31_FailedValidationKeepsStructured ==
    orchestrator.validateResponse \in ClaudeResponses \ {"json"}
        => /\ orchestrator.data = DocumentAIExtract
           /\ orchestrator.pc \in {"validate", "returned"}
           /\ orchestrator.failedAfter = -1
           /\ orchestrator.calls = <<DocumentAIExtract, ClaudeValidate>>

\* Claude answered the validation call with text that is not JSON and the
\* extraction has returned
C31_Witness ==
    /\ orchestrator.validateResponse = "invalidJSON"
    /\ orchestrator.pc = "returned"
    /\ orchestrator.data = DocumentAIExtract


\* the warnings validate gave for the gap from..to of a day
GapWarnings(day, from, to) ==
    {n \in 1..Len(validation.first.warnings) :
        /\ validation.first.warnings[n].type = "gap"
        /\ validation.first.warnings[n].day = day
        /\ validation.first.warnings[n].message.times = <<from, to>>}

\* the consecutive pairs of sorted that are separated by the same interval
\* as the i-th pair (more than one only when a block ends before it starts)
SameGap(sorted, i) ==
    {k \in 1..(Len(sorted) - 1) :
        /\ sorted[k].endTime = sorted[i].endTime
        /\ sorted[k + 1].startTime = sorted[i + 1].startTime}

Kept(out) == SelectSeq(out, LAMBDA b : b.notes = 0)

\* C33: validate keeps every input block: each block of the input is in the
\* output with the same day, startTime and eventName (only its endTime may
\* differ), and every other block of the output is an inserted Transition or
\* Free Period.
C33_KeepsEveryBlock ==
    validation.pc # "extracted" =>
        LET in == validation.input.blocks
            out == validation.first.data.blocks
        IN  /\ \A i \in 1..Len(in) :
                  \E k \in 1..Len(out) :
                      /\ out[k].day = in[i].day
                      /\ out[k].startTime = in[i].startTime
                      /\ out[k].eventName = in[i].eventName
                      /\ out[k].notes = 0
            /\ Len(Kept(out)) = Len(in)
            /\ \A k \in 1..Len(out) :
                  out[k].notes # 0
                      => out[k].eventName \in {"Transition", "Free Period"}


\* C34: a successful attempt goes in this order: result upload, timetable
\* and Completed status, deletion of the queue message, and only then the
\* webhook delivery; the message is not deleted before the job is Completed.
C34_SuccessOrder ==
    [][\A w \in WorkerIds :
          LET j == workers[w].jobId IN
          /\ workers[w].pc = "triggerWebhooks" /\ workers'[w].pc # "triggerWebhooks"
                => /\ queue[j].state = "deleted"
                   /\ blobs[j] > 0 /\ timetables[j] > 0
          /\ workers[w].pc = "deleteMessage" /\ workers'[w].pc # "deleteMessage"
                => jobs[j].status = "completed"]_vars


Terminal(j) == jobs[j].status \in {"completed", "failed", "cancelled"}

\* C35: with loops that go on, redelivery after the visibility timeout and
\* attempts that end, every job whose message was enqueued reaches Completed,
\* Failed or Cancelled, also when the process is stopped in the middle of the
\* job and started again.
C35_EventuallyTerminal ==
    \A j \in JobIds : (queue[j].state # "none") ~> Terminal(j)

\* C36: the RetryLog rows of a job are only appended, and the row appended
\* as the k-th carries attempt number k (no number twice, none left out),
\* whatever the interleaving of the loops and whichever call fails.
C36_RetryLogNumbered ==
    [][\A j \in JobIds :
          \/ retryLogs'[j] = retryLogs[j]
          \/ retryLogs'[j] = Append(retryLogs[j], Len(retryLogs[j]) + 1)]_vars

\* C37: a message that can never lead to processing (its body does not parse
\* to a job descriptor, or the job of its descriptor has no row) is deleted
\* from the main queue by a worker in the end.
C37_StrayIsDeleted ==
    \A j \in JobIds :
        (/\ queue[j].state \in {"visible", "inflight"}
         /\ parseMessage(queue[j].body) = "null" \/ jobs[j].status = "none")
            ~> (queue[j].state = "deleted")

\* C38: a webhook registered for a job that is Completed, before or after
\* the completion, is POSTed at least once in the end.
C38_RegisteredIsPosted ==
    \A h \in WebhookIds : \A j \in JobIds :
        (webhooks[h].jobId = j /\ jobs[j].status = "completed") ~> (posts[h] # <<>>)

\* C39: no POST goes to a webhook whose row is marked delivered, so no
\* webhook gets a second 2xx answer.
C39_NoPostAfterDelivered ==
    [][\A h \in WebhookIds : webhooks[h].delivered => posts'[h] = posts[h]]_vars

\* C40: a failure inside triggerWebhooks leaves the job alone: the call is
\* left only towards deleteMessage, and no step changes a retryCount, adds a
\* RetryLog row, sends to the DLQ or marks a job failed (the webhook store is
\* the only thing that fails).
C40_DeliveryFailureIsContained ==
    [][/\ \A w \in WorkerIds :
             workers[w].pc \in {"triggerWebhooks", "delivering"}
                 => workers'[w].pc \in {"triggerWebhooks", "delivering", "deleteMessage"}
       /\ \A j \in JobIds :
             /\ jobs'[j].retryCount = jobs[j].retryCount
             /\ retryLogs'[j] = retryLogs[j]
             /\ dlq'[j] = dlq[j]
             /\ jobs'[j].status = "failed" => jobs[j].status = "failed"]_vars

====
